---- MODULE Spec2Model ----
(***************************************************************************)
(* A model of the support-triage agent of src/agent_logic.py: the startup  *)
(* probe (_select_model_and_method), SupportAgent.__init__, the matcher,   *)
(* the escalation detector, the backend adapter (_call_model) and the      *)
(* resolution engine (process_query).                                      *)
(*                                                                         *)
(* Python strings are TLA+ strings; str.lower, str.strip and the `in`      *)
(* substring test are computed character by character.                     *)
(***************************************************************************)
EXTENDS Integers, Sequences, FiniteSets, TLC

VARIABLES
    imported,          \* agent_logic has been imported (lines 15-85 have run)
    GEMINI_API_KEY,    \* agent_logic.GEMINI_API_KEY is set (truthy)
    sdk,               \* the installed genai SDK: attributes of a model object and of the module
    matcher,           \* the SequenceMatcher the installed fuzzywuzzy uses
    SELECTED,          \* <<_SELECTED_MODEL_NAME, _SELECTED_METHOD>>
    probe,             \* a run of _select_model_and_method on its own: its listing, its result
    listModelsCalls,   \* number of genai.list_models() calls made so far
    agents,            \* the SupportAgent objects constructed so far
    pc,                \* "idle", "attempting" (inside _call_model's loop), "returned"
    call,              \* the locals of the call in progress (resp: the last response received)
    attempts,          \* _call_model's attempts list
    errors,            \* _call_model's errors list
    log,               \* per finished attempt: what it did
    invocations,       \* backend invocations made by the current call
    trace,             \* those invocations in order: the attempt and how it was called
    ctorCalls,         \* genai.GenerativeModel(...) calls made by the current call
    matcherCalls,      \* find_matching_faq calls made by the current call
    callModelCalls,    \* _call_model calls made by the current call
    result,            \* what the call returned or raised
    previous,          \* the caller's notes: the backend's script, an earlier call and its outcome
    parked,            \* the locals of a second caller's call while the first one runs
    session            \* app.py: st.session_state of the one browser session, and its last run

vars == <<imported, GEMINI_API_KEY, sdk, matcher, SELECTED, probe, listModelsCalls, agents, pc, call,
          attempts, errors, log, invocations, trace, ctorCalls, matcherCalls, callModelCalls,
          result, previous, parked, session>>

\* what the callers of the module keep for themselves
callers == <<previous, parked, session>>

\* Python's None
None == "<None>"

-----------------------------------------------------------------------------
(* src/faq_kb.py *)

FAQ_DATABASE == <<
    [question |-> "What are your business hours?",
     answer |-> "We're available 24/7 through our support portal. Our live support team is available Monday to Friday, 9 AM to 6 PM EST.",
     category |-> "General"],
    [question |-> "How do I reset my password?",
     answer |-> "Click 'Forgot Password' on the login page. Enter your email and follow the instructions sent to your inbox. If you don't receive it, check your spam folder or contact support.",
     category |-> "Account"],
    [question |-> "What payment methods do you accept?",
     answer |-> "We accept all major credit cards (Visa, MasterCard, American Express), PayPal, and bank transfers. All payments are secure and encrypted.",
     category |-> "Billing"],
    [question |-> "How long does shipping take?",
     answer |-> "Standard shipping takes 5-7 business days. Express shipping takes 2-3 business days. International orders may take 10-15 business days.",
     category |-> "Orders"],
    [question |-> "Can I return an item?",
     answer |-> "Yes! We offer a 30-day money-back guarantee on all products. Items must be unused and in original packaging. Contact support to initiate a return.",
     category |-> "Returns"],
    [question |-> "How do I update my profile?",
     answer |-> "Go to Settings > Profile and click 'Edit'. Update your information and click 'Save'. Changes take effect immediately.",
     category |-> "Account"],
    [question |-> "What is your refund policy?",
     answer |-> "Refunds are processed within 5-7 business days after we receive your returned item. You'll receive an email confirmation once the refund is issued.",
     category |-> "Billing"],
    [question |-> "Do you offer a free trial?",
     answer |-> "Yes! We offer a 14-day free trial with full access to all features. No credit card required to start.",
     category |-> "Pricing"],
    [question |-> "How can I contact support?",
     answer |-> "You can reach our support team via: Email (support@company.com), Live Chat (available 9 AM - 6 PM EST), or this support portal 24/7.",
     category |-> "General"],
    [question |-> "Is my data secure?",
     answer |-> "Yes, we use 256-bit SSL encryption and comply with GDPR and CCPA standards. Your data is backed up daily and never shared with third parties.",
     category |-> "Security"]
>>

-----------------------------------------------------------------------------
(* Inputs *)

\* the queries passed to process_query
Queries ==
    {None, "", "   ", "???",
     "hi", " Hello ", "HEY", "hii", "Hola", "YO", "hiya\n", "hi there",
     "This is URGENT", "critical", "Emergency!", "asap", "fix it Immediately", "it is broken",
     "Not Working", "ERROR 500", "I am angry", "Refund", "cancel my order",
     "let me Speak To someone", "that is inhumane", "Manager", "LAWSUIT",
     "What is your refund policy?", "How do I reset my password?",
     "trial period", "are you open today", "free trial length", "how to reset pw",
     "password help", "how do i", "where is my order",
     "Check FAQs", "Report an issue", "Talk to a human", "Show FAQs", "Talk to human"}

-----------------------------------------------------------------------------
(* Strings.  The recursive definitions say what each function computes; the  *)
(* tables hold their values on the strings of the corpus and of the queries, *)
(* so that they are computed once.                                           *)

UpperAlpha == "ABCDEFGHIJKLMNOPQRSTUVWXYZ"
LowerAlpha == "abcdefghijklmnopqrstuvwxyz"

CharAt(s, i) == SubSeq(s, i, i)

Chars(s) == {CharAt(s, i) : i \in 1..Len(s)}

LowerTable ==
    [c \in Chars(UpperAlpha) |->
        CharAt(LowerAlpha, CHOOSE i \in 1..Len(UpperAlpha) : CharAt(UpperAlpha, i) = c)]

\* str.lower() of one character
LowerChar(c) == IF c \in DOMAIN LowerTable THEN LowerTable[c] ELSE c

RECURSIVE LowerOf(_)
LowerOf(s) == IF Len(s) = 0 THEN "" ELSE LowerChar(CharAt(s, 1)) \o LowerOf(SubSeq(s, 2, Len(s)))

IsSpace(c) == c \in {" ", "\t", "\n"}

RECURSIVE LStrip(_)
LStrip(s) ==
    IF Len(s) > 0 /\ IsSpace(CharAt(s, 1)) THEN LStrip(SubSeq(s, 2, Len(s))) ELSE s

RECURSIVE RStrip(_)
RStrip(s) ==
    IF Len(s) > 0 /\ IsSpace(CharAt(s, Len(s))) THEN RStrip(SubSeq(s, 1, Len(s) - 1)) ELSE s

\* str.strip()
Strip(s) == RStrip(LStrip(s))

\* k in s
Contains(s, k) == \E i \in 1..(Len(s) - Len(k) + 1) : SubSeq(s, i, i + Len(k) - 1) = k

KnownStrings ==
    {Strip(u) : u \in Queries} \cup {FAQ_DATABASE[i].question : i \in 1..Len(FAQ_DATABASE)}

LowerMemo == [s \in KnownStrings |-> LowerOf(s)]

\* str.lower()
Lower(s) == IF s \in DOMAIN LowerMemo THEN LowerMemo[s] ELSE LowerOf(s)

\* bool(x) of an optional string
Truthy(x) == x # None /\ x # ""

\* x or y
Or(x, y) == IF Truthy(x) THEN x ELSE y

-----------------------------------------------------------------------------
(* Module constants of agent_logic.py *)

PREFERRED_METHODS ==
    <<"generate_content", "generateContent", "generate_text", "generateText", "generate">>

PREFERRED_MODEL_KEYWORDS == <<"gemini", "chat-bison", "text-bison", "bison", "gpt", "llama">>

-----------------------------------------------------------------------------
(* _select_model_and_method *)

\* score of one listed model: keyword weights plus the number of supported methods
KeywordScore(lname) ==
    LET n == Len(PREFERRED_MODEL_KEYWORDS)
        w[i \in 0..n] ==
            IF i = 0 THEN 0
            ELSE w[i - 1] + (IF Contains(lname, PREFERRED_MODEL_KEYWORDS[i])
                             THEN (n - (i - 1)) * 10 ELSE 0)
    IN  w[n]

ModelName(m) == Or(m.name, Or(m.model, None))

Supported(m) ==
    IF m.supported_generation_methods # <<>> THEN m.supported_generation_methods
    ELSE m.generation_methods

\* the candidates list before sorting: <<score, model>> for every model with a name
Candidates(models) ==
    LET keep == SelectSeq(models, LAMBDA m : Truthy(ModelName(m)))
    IN  [i \in 1..Len(keep) |->
            <<KeywordScore(Lower(ModelName(keep[i]))) + Len(Supported(keep[i])), keep[i]>>]

RECURSIVE SortDesc(_)
\* list.sort(key=score, reverse=True): stable, equal scores keep their order
SortDesc(cs) ==
    IF Len(cs) = 0 THEN <<>>
    ELSE LET best == CHOOSE i \in 1..Len(cs) :
                        /\ \A j \in 1..Len(cs) : cs[j][1] <= cs[i][1]
                        /\ \A j \in 1..(i - 1) : cs[j][1] < cs[i][1]
             rest == [j \in 1..(Len(cs) - 1) |-> IF j < best THEN cs[j] ELSE cs[j + 1]]
         IN  <<cs[best]>> \o SortDesc(rest)

\* line 73 with one direction only: the method name occurs in the capability
MethodMatchesOneWay(method, s) == Contains(Lower(s), Lower(method))

\* line 73: the preferred name occurs in the capability or the capability in it
MethodMatches(method, s) ==
    Contains(Lower(s), Lower(method)) \/ Contains(Lower(method), Lower(s))

\* the method chosen for one candidate, or None
MethodFor(m) ==
    LET sup == Supported(m)
        hits == {i \in 1..Len(PREFERRED_METHODS) :
                    \E j \in 1..Len(sup) : MethodMatches(PREFERRED_METHODS[i], sup[j])}
    IN  IF hits # {} THEN PREFERRED_METHODS[CHOOSE i \in hits : \A k \in hits : i <= k]
        ELSE IF Len(sup) > 0 THEN sup[1]
        ELSE None

\* listing.raises: genai.list_models() raised; else listing.models is what it returned
SelectModelAndMethod(listing) ==
    IF listing.raises THEN <<None, None>>
    ELSE LET sorted == SortDesc(Candidates(listing.models))
             ok == {i \in 1..Len(sorted) : MethodFor(sorted[i][2]) # None}
         IN  IF ok = {} THEN <<None, None>>
             ELSE LET i == CHOOSE i \in ok : \A k \in ok : i <= k
                  IN  <<ModelName(sorted[i][2]), MethodFor(sorted[i][2])>>

-----------------------------------------------------------------------------
(* SupportAgent helpers *)

GreetingTokens == {"hi", "hello", "hey", "hii", "hola", "yo", "hiya"}

\* _is_greeting without line 117's lower()
IsGreetingAsTyped(query) == Strip(query) \in GreetingTokens

\* SupportAgent._is_greeting
IsGreeting(query) == Lower(Strip(query)) \in GreetingTokens

EscalationKeywords ==
    <<"urgent", "critical", "emergency", "asap", "immediately",
      "broken", "not working", "error", "angry", "refund",
      "cancel", "speak to", "human", "manager", "lawsuit">>

\* detect_escalation_keywords without line 140's lower(): the keywords are
\* looked for in the query as typed
DetectEscalationKeywordsAsTyped(query) ==
    \E i \in 1..Len(EscalationKeywords) : Contains(query, EscalationKeywords[i])

\* detect_escalation_keywords with "human" missing from the list of line 135
DetectEscalationKeywordsWithoutHuman(query) ==
    LET q == Lower(query)
    IN  \E i \in 1..Len(EscalationKeywords) :
            EscalationKeywords[i] # "human" /\ Contains(q, EscalationKeywords[i])

\* SupportAgent.detect_escalation_keywords
DetectEscalationKeywords(query) ==
    LET q == Lower(query)
    IN  \E i \in 1..Len(EscalationKeywords) : Contains(q, EscalationKeywords[i])

(* fuzz.token_set_ratio of fuzzywuzzy, on the lower-cased queries and the      *)
(* lower-cased questions of FAQ_DATABASE: row q holds the scores of q against  *)
(* records 1..10.  fuzzywuzzy computes its ratios with difflib's               *)
(* SequenceMatcher, or with python-Levenshtein's when that is installed; the   *)
(* two give different scores for some pairs.                                   *)

DifflibRatios ==
    ("" :> <<0, 0, 0, 0, 0, 0, 0, 0, 0, 0>>)
    @@ ("???" :> <<0, 0, 0, 0, 0, 0, 0, 0, 0, 0>>)
    @@ ("hi" :> <<7, 14, 6, 14, 9, 14, 7, 7, 15, 11>>)
    @@ ("hello" :> <<12, 13, 15, 19, 8, 13, 13, 20, 13, 9>>)
    @@ ("hey" :> <<13, 14, 16, 13, 9, 14, 14, 14, 7, 10>>)
    @@ ("hii" :> <<6, 14, 5, 20, 17, 21, 7, 7, 14, 10>>)
    @@ ("hola" :> <<19, 20, 16, 26, 8, 27, 20, 14, 14, 10>>)
    @@ ("yo" :> <<13, 14, 11, 7, 0, 14, 14, 15, 7, 11>>)
    @@ ("hiya" :> <<12, 27, 16, 19, 8, 27, 13, 14, 14, 19>>)
    @@ ("hi there" :> <<11, 29, 19, 29, 43, 29, 24, 18, 24, 40>>)
    @@ ("this is urgent" :> <<38, 20, 21, 29, 41, 30, 35, 26, 15, 52>>)
    @@ ("critical" :> <<17, 12, 14, 17, 21, 18, 24, 24, 12, 16>>)
    @@ ("emergency!" :> <<22, 11, 28, 11, 34, 11, 11, 24, 6, 15>>)
    @@ ("asap" :> <<19, 13, 16, 6, 17, 7, 7, 14, 21, 19>>)
    @@ ("fix it immediately" :> <<22, 27, 27, 13, 26, 32, 23, 33, 14, 29>>)
    @@ ("it is broken" :> <<25, 32, 22, 15, 38, 26, 29, 32, 27, 34>>)
    @@ ("not working" :> <<31, 27, 22, 26, 32, 11, 27, 22, 39, 21>>)
    @@ ("error 500" :> <<22, 17, 14, 11, 28, 17, 17, 29, 18, 23>>)
    @@ ("i am angry" :> <<21, 28, 27, 27, 40, 18, 17, 23, 29, 30>>)
    @@ ("refund" :> <<24, 12, 10, 12, 31, 25, 100, 26, 6, 17>>)
    @@ ("cancel my order" :> <<33, 39, 33, 10, 46, 24, 24, 30, 40, 31>>)
    @@ ("let me speak to someone" :> <<16, 8, 32, 28, 14, 16, 20, 33, 25, 35>>)
    @@ ("that is inhumane" :> <<36, 29, 28, 23, 39, 29, 43, 29, 29, 30>>)
    @@ ("manager" :> <<23, 18, 20, 12, 37, 18, 12, 19, 25, 25>>)
    @@ ("lawsuit" :> <<17, 24, 15, 12, 22, 18, 18, 12, 31, 25>>)
    @@ ("what is your refund policy?" :> <<56, 31, 50, 23, 39, 38, 100, 47, 24, 33>>)
    @@ ("how do i reset my password?" :> <<30, 100, 33, 34, 39, 59, 31, 31, 47, 47>>)
    @@ ("trial period" :> <<20, 26, 30, 26, 25, 21, 32, 59, 16, 14>>)
    @@ ("are you open today" :> <<48, 23, 50, 36, 21, 27, 36, 60, 33, 17>>)
    @@ ("free trial length" :> <<31, 19, 31, 41, 16, 19, 28, 74, 10, 12>>)
    @@ ("how to reset pw" :> <<28, 75, 37, 38, 29, 34, 39, 40, 40, 25>>)
    @@ ("password help" :> <<34, 76, 26, 10, 18, 21, 26, 21, 26, 13>>)
    @@ ("how do i" :> <<28, 100, 40, 55, 22, 100, 12, 40, 77, 24>>)
    @@ ("where is my order" :> <<40, 51, 27, 23, 32, 37, 51, 33, 19, 59>>)
    @@ ("check faqs" :> <<16, 17, 23, 11, 20, 22, 17, 17, 23, 15>>)
    @@ ("report an issue" :> <<33, 39, 20, 10, 51, 24, 34, 30, 50, 50>>)
    @@ ("talk to a human" :> <<33, 29, 16, 33, 34, 24, 15, 40, 35, 19>>)
    @@ ("show faqs" :> <<32, 23, 23, 22, 14, 23, 23, 24, 29, 31>>)
    @@ ("talk to human" :> <<24, 26, 9, 30, 36, 21, 10, 37, 37, 27>>)

LevenshteinRatios ==
    ("" :> <<0, 0, 0, 0, 0, 0, 0, 0, 0, 0>>)
    @@ ("???" :> <<0, 0, 0, 0, 0, 0, 0, 0, 0, 0>>)
    @@ ("hi" :> <<7, 14, 6, 14, 9, 14, 7, 7, 15, 11>>)
    @@ ("hello" :> <<12, 13, 15, 19, 8, 13, 13, 20, 13, 9>>)
    @@ ("hey" :> <<13, 14, 16, 13, 9, 14, 14, 14, 7, 10>>)
    @@ ("hii" :> <<6, 14, 5, 20, 17, 21, 14, 7, 14, 10>>)
    @@ ("hola" :> <<19, 20, 16, 26, 8, 27, 20, 14, 14, 10>>)
    @@ ("yo" :> <<13, 14, 11, 7, 0, 14, 14, 15, 7, 11>>)
    @@ ("hiya" :> <<12, 27, 16, 19, 8, 27, 20, 14, 14, 19>>)
    @@ ("hi there" :> <<22, 29, 19, 29, 43, 29, 24, 18, 24, 40>>)
    @@ ("this is urgent" :> <<38, 40, 33, 34, 41, 35, 45, 26, 41, 52>>)
    @@ ("critical" :> <<17, 12, 14, 17, 21, 18, 24, 30, 18, 24>>)
    @@ ("emergency!" :> <<22, 17, 28, 17, 34, 17, 23, 24, 12, 31>>)
    @@ ("asap" :> <<19, 13, 16, 13, 17, 7, 13, 14, 21, 19>>)
    @@ ("fix it immediately" :> <<26, 27, 31, 27, 37, 36, 36, 33, 28, 29>>)
    @@ ("it is broken" :> <<35, 32, 22, 36, 38, 32, 42, 32, 32, 34>>)
    @@ ("not working" :> <<31, 27, 22, 37, 32, 27, 27, 28, 39, 21>>)
    @@ ("error 500" :> <<27, 17, 14, 11, 28, 17, 23, 29, 18, 23>>)
    @@ ("i am angry" :> <<26, 33, 27, 27, 47, 28, 17, 29, 34, 30>>)
    @@ ("refund" :> <<24, 12, 10, 12, 31, 25, 100, 26, 6, 17>>)
    @@ ("cancel my order" :> <<33, 39, 33, 24, 51, 39, 29, 30, 40, 44>>)
    @@ ("let me speak to someone" :> <<39, 37, 46, 40, 28, 37, 33, 38, 29, 35>>)
    @@ ("that is inhumane" :> <<41, 29, 36, 33, 44, 33, 48, 29, 29, 36>>)
    @@ ("manager" :> <<23, 18, 20, 18, 37, 18, 18, 19, 25, 33>>)
    @@ ("lawsuit" :> <<23, 24, 15, 24, 22, 18, 18, 12, 31, 25>>)
    @@ ("what is your refund policy?" :> <<56, 35, 50, 30, 39, 42, 100, 47, 35, 47>>)
    @@ ("how do i reset my password?" :> <<30, 100, 33, 42, 39, 62, 35, 35, 47, 47>>)
    @@ ("trial period" :> <<30, 26, 30, 26, 25, 26, 32, 59, 16, 21>>)
    @@ ("are you open today" :> <<52, 27, 54, 36, 37, 32, 45, 60, 42, 34>>)
    @@ ("free trial length" :> <<36, 23, 31, 41, 32, 28, 33, 74, 29, 18>>)
    @@ ("how to reset pw" :> <<33, 75, 37, 38, 29, 44, 39, 40, 40, 25>>)
    @@ ("password help" :> <<34, 76, 30, 25, 18, 26, 26, 21, 26, 27>>)
    @@ ("how do i" :> <<28, 100, 40, 55, 22, 100, 24, 40, 77, 24>>)
    @@ ("where is my order" :> <<40, 51, 31, 32, 38, 42, 51, 33, 24, 65>>)
    @@ ("check faqs" :> <<16, 22, 23, 16, 20, 22, 22, 23, 23, 15>>)
    @@ ("report an issue" :> <<42, 39, 24, 24, 51, 34, 34, 40, 50, 50>>)
    @@ ("talk to a human" :> <<37, 34, 37, 33, 46, 34, 34, 40, 35, 25>>)
    @@ ("show faqs" :> <<32, 23, 23, 28, 14, 23, 23, 24, 29, 31>>)
    @@ ("talk to human" :> <<29, 31, 30, 30, 36, 31, 31, 37, 37, 27>>)

SequenceMatchers == {"difflib", "Levenshtein"}

\* fuzz.token_set_ratio(q, question) under the installed matcher impl
TokenSetRatio(q, question, impl) ==
    LET i == CHOOSE i \in 1..Len(FAQ_DATABASE) : Lower(FAQ_DATABASE[i].question) = question
    IN  IF impl = "difflib" THEN DifflibRatios[q][i] ELSE LevenshteinRatios[q][i]

RECURSIVE MatchLoopLastWins(_, _, _, _, _, _)
\* the loop of lines 125-129 with >= for > at line 127: on a tie the later record wins
MatchLoopLastWins(faq_db, q, impl, i, best_match, best_score) ==
    IF i > Len(faq_db) THEN <<best_match, best_score>>
    ELSE LET score == TokenSetRatio(q, Lower(faq_db[i].question), impl)
         IN  IF score >= best_score
             THEN MatchLoopLastWins(faq_db, q, impl, i + 1, i, score)
             ELSE MatchLoopLastWins(faq_db, q, impl, i + 1, best_match, best_score)

RECURSIVE MatchLoop(_, _, _, _, _, _)
\* the loop of lines 125-129 from record i on: <<best_match, best_score>>, the
\* match as the record's index, 0 for None
MatchLoop(faq_db, q, impl, i, best_match, best_score) ==
    IF i > Len(faq_db) THEN <<best_match, best_score>>
    ELSE LET score == TokenSetRatio(q, Lower(faq_db[i].question), impl)
         IN  IF score > best_score
             THEN MatchLoop(faq_db, q, impl, i + 1, i, score)
             ELSE MatchLoop(faq_db, q, impl, i + 1, best_match, best_score)

\* find_matching_faq without the floor of lines 130-132: the best record is
\* returned with whatever score it has
FindMatchingFaqWithoutFloor(faq_db, query, impl) ==
    MatchLoop(faq_db, Lower(query), impl, 1, 0, 0)

\* find_matching_faq with > for >= at line 130
FindMatchingFaqAbove60(faq_db, query, impl) ==
    LET b == MatchLoop(faq_db, Lower(query), impl, 1, 0, 0)
    IN  IF b[2] > 60 THEN b ELSE <<0, 0>>

\* find_matching_faq with 50, the soft-suggestion threshold, as the floor of line 130
FindMatchingFaqFloor50(faq_db, query, impl) ==
    LET b == MatchLoop(faq_db, Lower(query), impl, 1, 0, 0)
    IN  IF b[2] >= 50 THEN b ELSE <<0, 0>>

\* SupportAgent.find_matching_faq: <<index of the record or 0, best_score>>; the
\* returned confidence is best_score / 100.0, kept here in hundredths
FindMatchingFaq(faq_db, query, impl) ==
    LET b == MatchLoop(faq_db, Lower(query), impl, 1, 0, 0)
    IN  IF b[2] >= 60 THEN b ELSE <<0, 0>>

-----------------------------------------------------------------------------
(* Backend payloads: what an invocation may return.  A value is a tagged     *)
(* record: a string [t, s], a list [t, items], a mapping [t, m, repr], an    *)
(* object [t, attrs, raising, repr, strRaises], or something else [t, repr]. *)
(* repr is what str() gives for it.                                          *)

Str(s) == [t |-> "str", s |-> s]
List(items) == [t |-> "list", items |-> items]
Dict(m, repr) == [t |-> "dict", m |-> m, repr |-> repr]
Other(repr) == [t |-> "other", repr |-> repr]
\* raising: the attributes whose accessor raises an exception other than
\* AttributeError (hasattr lets it through); strRaises: __str__ raises
Obj(attrs, raising, repr, strRaises) ==
    [t |-> "obj", attrs |-> attrs, raising |-> raising, repr |-> repr, strRaises |-> strRaises]

NoAttrs == [x \in {} |-> 0]

PayloadIds ==
    {"str", "blank", "empty", "objText", "objContent", "dictText", "dictEmpty", "dictEmptyText",
     "dictCandidates", "dictOpaqueCandidate", "dictNumber", "objOutputs", "objCandidates",
     "objOpaqueLong", "objOpaqueShort", "none", "objTextRaises", "objStrRaises"}

Payload(id) ==
    CASE id = "str" -> Str("Go to the login page and click Forgot Password.")
      [] id = "blank" -> Str("   ")
      [] id = "padded" -> Str("  Sure - open Settings, then Billing.\n")
      [] id = "empty" -> Str("")
      [] id = "objText" -> Obj([text |-> Str("You can pay by card.")], {}, "<GenerateContentResponse>", FALSE)
      [] id = "objContent" -> Obj([content |-> Str("Shipping takes a week.")], {}, "<Message>", FALSE)
      [] id = "dictText" -> Dict([text |-> Str("abc")], "{'text': 'abc'}")
      [] id = "dictEmpty" -> Dict(NoAttrs, "{}")
      [] id = "dictEmptyText" -> Dict([text |-> Str("")], "{'text': ''}")
      [] id = "dictCandidates" ->
            Dict([candidates |-> List(<<Dict([content |-> Str("Try again later.")],
                                             "{'content': 'Try again later.'}")>>)],
                 "{'candidates': [{'content': 'Try again later.'}]}")
      [] id = "dictOpaqueCandidate" ->
            Dict([candidates |-> List(<<Dict([index |-> Other("0")], "{'index': 0}")>>)],
                 "{'candidates': [{'index': 0}]}")
      [] id = "dictNumber" -> Dict([output |-> Other("5")], "{'output': 5}")
      [] id = "objOutputs" ->
            Obj([outputs |-> List(<<Obj([text |-> Str("Use the portal.")], {}, "<Output>", FALSE)>>)],
                {}, "<Completion>", FALSE)
      [] id = "objCandidates" ->
            Obj([candidates |-> List(<<Dict([output |-> Str("Contact billing.")],
                                            "{'output': 'Contact billing.'}")>>)],
                {}, "<Reply>", FALSE)
      [] id = "objOpaqueLong" -> Obj(NoAttrs, {}, "  <response object at 0x7f3a>  ", FALSE)
      [] id = "objOpaqueShort" -> Obj(NoAttrs, {}, "<resp>", FALSE)
      [] id = "none" -> Other("None")
      [] id = "objTextRaises" -> Obj([text |-> Str("")], {"text"}, "<GenerateContentResponse>", FALSE)
      [] id = "objStrRaises" -> Obj(NoAttrs, {}, "", TRUE)

IsStr(v) == v.t = "str"
IsDict(v) == v.t = "dict"
IsList(v) == v.t = "list"
\* hasattr(v, a)
HasAttr(v, a) == v.t = "obj" /\ a \in DOMAIN v.attrs
\* hasattr(v, a) lets an exception escape
AttrRaises(v, a) == v.t = "obj" /\ a \in v.raising
\* k in v and isinstance(v[k], str), for a mapping v
HasStrKey(v, k) == k \in DOMAIN v.m /\ IsStr(v.m[k])

Text(s) == [kind |-> "text", text |-> s]
NoText == [kind |-> "none", text |-> ""]
Raised == [kind |-> "raise", text |-> ""]

\* the first key of keys (in order) that d holds as a string, as Text, else dflt
FirstStrKey(d, keys, dflt) ==
    LET hits == {i \in 1..Len(keys) : HasStrKey(d, keys[i])}
    IN  IF hits = {} THEN dflt
        ELSE Text(d.m[keys[CHOOSE i \in hits : \A j \in hits : i <= j]].s)

ResultKeys == <<"text", "content", "output", "outputs", "candidates", "message", "messages">>

\* what the loop body of lines 172-193 does for key k of mapping resp: Text if
\* it returns, NoText if the loop goes on to the next key
DictKeyStep(resp, k) ==
    IF k \notin DOMAIN resp.m THEN NoText
    ELSE LET val == resp.m[k]
         IN  IF IsList(val) /\ Len(val.items) > 0
             THEN LET first == val.items[1]
                  IN  IF IsDict(first)
                      THEN FirstStrKey(first, <<"text", "content", "message">>, Text(first.repr))
                      ELSE IF IsStr(first) THEN Text(first.s)
                      ELSE NoText
             ELSE IF IsStr(val) THEN Text(val.s)
             ELSE NoText

\* lines 170-198: a mapping
ExtractDict(resp) ==
    LET hits == {i \in 1..Len(ResultKeys) : DictKeyStep(resp, ResultKeys[i]).kind = "text"}
    IN  IF hits = {} THEN Text(resp.repr)
        ELSE DictKeyStep(resp, ResultKeys[CHOOSE i \in hits : \A j \in hits : i <= j])

\* lines 200-219: an object with an outputs attribute
ExtractOutputs(resp) ==
    LET outputs == resp.attrs["outputs"]
    IN  IF ~(IsList(outputs) /\ Len(outputs.items) > 0) THEN NoText
        ELSE LET out0 == outputs.items[1]
             IN  IF HasAttr(out0, "text") /\ IsStr(out0.attrs["text"])
                 THEN Text(out0.attrs["text"].s)
                 ELSE IF HasAttr(out0, "content")
                         /\ IsList(out0.attrs["content"])
                         /\ Len(out0.attrs["content"].items) > 0
                         /\ IsDict(out0.attrs["content"].items[1])
                      THEN FirstStrKey(out0.attrs["content"].items[1],
                                       <<"text", "content", "message">>, NoText)
                      ELSE NoText

\* lines 221-231: an object with a candidates attribute
ExtractCandidates(resp) ==
    LET cands == resp.attrs["candidates"]
    IN  IF ~(IsList(cands) /\ Len(cands.items) > 0) THEN NoText
        ELSE LET cand0 == cands.items[1]
                 fromDict == IF IsDict(cand0)
                             THEN FirstStrKey(cand0, <<"output", "content", "text">>, NoText)
                             ELSE NoText
             IN  IF fromDict.kind = "text" THEN fromDict
                 ELSE IF HasAttr(cand0, "text") /\ IsStr(cand0.attrs["text"])
                      THEN Text(cand0.attrs["text"].s)
                      ELSE NoText

\* _call_model._extract_text: Text(s) when it returns the string s, NoText when
\* it returns None, Raised when an attribute accessor's exception escapes it
ExtractText(resp) ==
    IF IsStr(resp) THEN Text(resp.s)
    ELSE IF AttrRaises(resp, "text") THEN Raised
    ELSE IF HasAttr(resp, "text") /\ IsStr(resp.attrs["text"]) THEN Text(resp.attrs["text"].s)
    ELSE IF AttrRaises(resp, "content") THEN Raised
    ELSE IF HasAttr(resp, "content") /\ IsStr(resp.attrs["content"]) THEN Text(resp.attrs["content"].s)
    ELSE IF IsDict(resp) THEN ExtractDict(resp)
    ELSE LET a == IF HasAttr(resp, "outputs") THEN ExtractOutputs(resp) ELSE NoText
         IN  IF a.kind = "text" THEN a
             ELSE IF HasAttr(resp, "candidates") THEN ExtractCandidates(resp) ELSE NoText

\* lines 331-337: the raw payload's string form, accepted when its stripped form
\* is longer than 10 characters
RawFallback(resp) ==
    IF resp.t = "obj" /\ resp.strRaises THEN NoText
    ELSE LET s == IF IsStr(resp) THEN resp.s ELSE resp.repr
         IN  IF s # "" /\ Strip(s) # "" /\ Len(Strip(s)) > 10 THEN Text(Strip(s)) ELSE NoText

\* lines 326-337 with `if text is not None` for line 328's `if text`: an
\* extracted empty string is returned
ParseResponseAcceptingEmpty(resp) ==
    LET x == ExtractText(resp)
    IN  IF x.kind = "raise" THEN Raised
        ELSE IF x.kind = "text" THEN x
        ELSE RawFallback(resp)

\* lines 326-337: what a response does to the loop: Text(s) returns s from
\* _call_model, NoText goes on to the next attempt, Raised leaves _call_model
\* with the accessor's exception
ParseResponse(resp) ==
    LET x == ExtractText(resp)
    IN  IF x.kind = "raise" THEN Raised
        ELSE IF x.kind = "text" /\ x.text # "" THEN x
        ELSE RawFallback(resp)

-----------------------------------------------------------------------------
(* _call_model: the attempts list (lines 234-299) *)

\* method_variants: <<method name, keyword the prompt is bound to>>
MethodVariants ==
    << <<"generate_content", "prompt">>, <<"generate_content", "input">>,
       <<"generate_content", "messages">>,
       <<"generateContent", "prompt">>, <<"generateContent", "input">>,
       <<"generateContent", "messages">>,
       <<"generate_text", "prompt">>, <<"generate_text", "text">>, <<"generate_text", "input">>,
       <<"generateText", "text">>,
       <<"generate", "prompt">>, <<"generate", "input">>,
       <<"create", "prompt">> >>

TopLevelVariants ==
    << <<"generate_content", "prompt">>, <<"generate_content", "input">>,
       <<"generate_content", "messages">>,
       <<"generateContent", "prompt">>,
       <<"generate_text", "prompt">>, <<"generate_text", "text">>, <<"generate_text", "input">>,
       <<"generate", "prompt">>, <<"generate", "input">>,
       <<"create", "prompt">> >>

GenericFallbacks == <<"generate", "generate_text", "generate_content">>

\* one entry of attempts: the callable (surface.method) and its args; binding
\* "kw" is a dict of keyword arguments, "positional" the tuple (prompt,)
AttemptOf(surface, method, binding, arg) ==
    [surface |-> surface, method |-> method, binding |-> binding, arg |-> arg]

Kw(surface, vs) == [i \in 1..Len(vs) |-> AttemptOf(surface, vs[i][1], "kw", vs[i][2])]

Positional(surface, vs) ==
    [i \in 1..Len(vs) |-> AttemptOf(surface, vs[i][1], "positional", "prompt")]

\* lines 263-272 with the two loops swapped: func(prompt) before the keyword shapes
BuildAttemptsPositionalFirst(hasModel, modelAttrs, genaiAttrs) ==
    LET onModel == SelectSeq(MethodVariants, LAMBDA v : hasModel /\ v[1] \in modelAttrs)
        onGenai == SelectSeq(TopLevelVariants, LAMBDA v : v[1] \in genaiAttrs)
        generic == SelectSeq(GenericFallbacks, LAMBDA f : f \in genaiAttrs)
    IN  Positional("model", onModel) \o Kw("model", onModel) \o Kw("genai", onGenai)
        \o [i \in 1..Len(generic) |-> AttemptOf("genai", generic[i], "kw", "prompt")]

\* modelAttrs: the attributes of the model object, {} when there is none
\* (model is None); genaiAttrs: the attributes of the genai module
BuildAttempts(hasModel, modelAttrs, genaiAttrs) ==
    LET onModel == SelectSeq(MethodVariants, LAMBDA v : hasModel /\ v[1] \in modelAttrs)
        onGenai == SelectSeq(TopLevelVariants, LAMBDA v : v[1] \in genaiAttrs)
        generic == SelectSeq(GenericFallbacks, LAMBDA f : f \in genaiAttrs)
    IN  Kw("model", onModel) \o Positional("model", onModel) \o Kw("genai", onGenai)
        \o [i \in 1..Len(generic) |-> AttemptOf("genai", generic[i], "kw", "prompt")]

-----------------------------------------------------------------------------
(* Outcomes and exceptions *)

\* Optional[List[str]]: <<>> is None, <<l>> is the list l
NoActions == <<>>
Actions(l) == <<l>>

\* an exception raised by a backend invocation: <<attempt index, n>>, raised by
\* the n-th invocation of that attempt
NoError == <<0, 0>>

Exc(type, why, last) == [type |-> type, why |-> why, last |-> last]
NoExc == Exc("", "", NoError)

\* the 4-tuple process_query returns
Outcome(reply, escalated, reason, actions) ==
    [kind |-> "outcome", reply |-> reply, escalated |-> escalated,
     escalation_reason |-> reason, actions |-> actions, text |-> "", exc |-> NoExc]

\* _call_model returned text
Returned(text) ==
    [kind |-> "text", reply |-> "", escalated |-> FALSE, escalation_reason |-> None,
     actions |-> NoActions, text |-> text, exc |-> NoExc]

\* the call raised exc
Raise(exc) ==
    [kind |-> "raise", reply |-> "", escalated |-> FALSE, escalation_reason |-> None,
     actions |-> NoActions, text |-> "", exc |-> exc]

NoResult ==
    [kind |-> "none", reply |-> "", escalated |-> FALSE, escalation_reason |-> None,
     actions |-> NoActions, text |-> "", exc |-> NoExc]

NotConfigured == Exc("RuntimeError", "Gemini model not configured or API key missing", NoError)

\* lines 340-341
AllAttemptsFailed(errs) ==
    Exc("RuntimeError", "All model call attempts failed",
        IF Len(errs) > 0 THEN errs[Len(errs)] ELSE NoError)

\* the exception of a response's attribute accessor, escaping _extract_text
AccessorError == Exc("ValueError", "response accessor", NoError)

-----------------------------------------------------------------------------
(* process_query: its texts and its steps.  The two non-ASCII characters of  *)
(* the source's texts (an emoji and a dash) are written in ASCII.            *)

SystemInstruction ==
    "You are a friendly, expert AI assistant. Answer conversationally like ChatGPT. "
    \o "Ask clarification questions when helpful and offer follow-up help."

EmptyReply == "Please type your question so I can help you."
GreetingReply == "Hi there! I'm your assistant - how can I help today?"
GreetingActions == <<"Check FAQs", "Report an issue", "Talk to a human">>
EscalationReply == "This looks urgent. I'm escalating this to a human support agent."
EscalationReason == "Contains urgent/critical keywords"
GenericFallback ==
    "Sorry - I can't generate a full answer right now. I can show relevant FAQs or connect you to human support. "
    \o "Which would you prefer?"
FallbackActions == <<"Show FAQs", "Talk to human">>

\* lines 377-380
HighConfidenceReply(faq) ==
    "Based on our knowledge base:\n\nQ: " \o faq.question \o "\nA: " \o faq.answer \o "\n\n"
    \o "Would you like more details or to talk to a human?"

\* lines 405-408
SoftSuggestionReply(faq) ==
    "It looks like this FAQ might help:\n\nQ: " \o faq.question \o "\nA: " \o faq.answer \o "\n\n"
    \o "If that doesn't answer your question, reply and I'll connect you to support."

\* lines 384-387
Prompt(faq_db, faq, q) ==
    SystemInstruction \o "\n\n"
    \o (IF faq # 0
        THEN "Relevant FAQ context:\nFAQ: " \o faq_db[faq].question \o "\nAnswer: "
             \o faq_db[faq].answer \o "\n\n"
        ELSE "")
    \o "User: " \o q \o "\nAssistant:"

\* (user_query or "").strip()
Normalize(user_query) == Strip(IF user_query = None THEN "" ELSE user_query)

\* lines 348-367: which of the first three checks decides the query q, if any
EarlyStep(q) ==
    IF q = "" THEN "empty"
    ELSE IF IsGreeting(q) THEN "greeting"
    ELSE IF DetectEscalationKeywords(q) THEN "escalation"
    ELSE "none"

\* lines 348-361 with the escalation check made before the greeting check
ChecksRunEscalationFirst(q) ==
    IF q = "" THEN <<"empty">>
    ELSE IF DetectEscalationKeywords(q) THEN <<"empty", "escalation">>
    ELSE <<"empty", "escalation", "greeting">>

\* lines 348-361: the checks process_query makes on q, in order, up to the one
\* that decides: `not q`, _is_greeting, detect_escalation_keywords
ChecksRun(q) ==
    IF q = "" THEN <<"empty">>
    ELSE IF IsGreeting(q) THEN <<"empty", "greeting">>
    ELSE <<"empty", "greeting", "escalation">>

\* lines 349-367 with the escalation outcome's reason left None
EarlyOutcomeWithoutReason(step) ==
    CASE step = "empty" -> Outcome(EmptyReply, FALSE, None, NoActions)
      [] step = "greeting" -> Outcome(GreetingReply, FALSE, None, Actions(GreetingActions))
      [] step = "escalation" -> Outcome(EscalationReply, TRUE, None, NoActions)

\* lines 349-367: the outcome of an early step
EarlyOutcome(step) ==
    CASE step = "empty" -> Outcome(EmptyReply, FALSE, None, NoActions)
      [] step = "greeting" -> Outcome(GreetingReply, FALSE, None, Actions(GreetingActions))
      [] step = "escalation" -> Outcome(EscalationReply, TRUE, EscalationReason, NoActions)

\* line 376 with > for >=
HighConfidenceAbove75(faq, confidence) == faq # 0 /\ confidence > 75

\* line 376: the high-confidence test; confidence is in hundredths
HighConfidence(faq, confidence) == faq # 0 /\ confidence >= 75

\* lines 403-416 with the generic fallback returned without its quick actions
FallbacksWithoutActions(faq_db, faq, confidence) ==
    IF faq # 0 /\ confidence >= 50
    THEN Outcome(SoftSuggestionReply(faq_db[faq]), FALSE, None, NoActions)
    ELSE Outcome(GenericFallback, FALSE, None, NoActions)

\* lines 403-416: the fallbacks
Fallbacks(faq_db, faq, confidence) ==
    IF faq # 0 /\ confidence >= 50
    THEN Outcome(SoftSuggestionReply(faq_db[faq]), FALSE, None, NoActions)
    ELSE Outcome(GenericFallback, FALSE, None, Actions(FallbackActions))

\* lines 391-416 without the try/except of lines 391-395: an exception of
\* _call_model leaves process_query
AfterCallModelUncaught(cm, faq_db, faq, confidence) ==
    IF cm.kind = "raise" THEN cm
    ELSE IF cm.text # "" /\ Strip(cm.text) # ""
    THEN Outcome(Strip(cm.text), FALSE, None, NoActions)
    ELSE Fallbacks(faq_db, faq, confidence)

\* lines 391-416 with the fallbacks of lines 403-409 tried before the answer:
\* a kept record is suggested even when _call_model returned text
AfterCallModelSuggestingFirst(cm, faq_db, faq, confidence) ==
    IF faq # 0 /\ confidence >= 50 THEN Fallbacks(faq_db, faq, confidence)
    ELSE IF cm.kind = "text" /\ cm.text # "" /\ Strip(cm.text) # ""
    THEN Outcome(Strip(cm.text), FALSE, None, NoActions)
    ELSE Fallbacks(faq_db, faq, confidence)

\* lines 391-416 with a failed model call escalated to a human instead of
\* falling back
AfterCallModelEscalatingFailure(cm, faq_db, faq, confidence) ==
    IF cm.kind = "raise" THEN Outcome(EscalationReply, TRUE, "Backend error", NoActions)
    ELSE IF cm.text # "" /\ Strip(cm.text) # ""
    THEN Outcome(Strip(cm.text), FALSE, None, NoActions)
    ELSE Fallbacks(faq_db, faq, confidence)

\* lines 391-416: what process_query does with the end of _call_model, cm
\* (Returned(text) or Raise(exc)): the answer when it has text, else the fallbacks
AfterCallModel(cm, faq_db, faq, confidence) ==
    IF cm.kind = "text" /\ cm.text # "" /\ Strip(cm.text) # ""
    THEN Outcome(Strip(cm.text), FALSE, None, NoActions)
    ELSE Fallbacks(faq_db, faq, confidence)

\* line 106 without the key: bool(self.model_name)
LlmAvailableWithoutKey(model_name, key) == Truthy(model_name)

\* line 106
LlmAvailable(model_name, key) == Truthy(model_name) /\ key

\* SupportAgent.__init__
NewAgent(faq_database, selected, key) ==
    [faq_db |-> faq_database,
     model_name |-> selected[1],
     method_name |-> selected[2],
     llm_available |-> LlmAvailable(selected[1], key)]

-----------------------------------------------------------------------------
(* Bounds and inputs *)

\* at most this many SupportAgent objects are constructed
MaxAgents == 2

ListedModel(name, methods) ==
    [name |-> name, model |-> None, supported_generation_methods |-> methods,
     generation_methods |-> <<>>]

ListingRaises == [raises |-> TRUE, models |-> <<>>]
Listing(models) == [raises |-> FALSE, models |-> models]

\* what genai.list_models() does at import
ProbeListings ==
    {ListingRaises,
     Listing(<<>>),
     Listing(<<ListedModel(None, <<"generateContent">>)>>),
     Listing(<<ListedModel("models/aqa", <<>>)>>),
     Listing(<<ListedModel("models/chat-bison-001", <<"generateText">>)>>)}

\* at most this many models are listed to a run of the probe on its own
MaxListed == 3

\* a listed model that gives its name as .model and its methods as .generation_methods
TunedModel(model, methods) ==
    [name |-> None, model |-> model, supported_generation_methods |-> <<>>,
     generation_methods |-> methods]

\* the models genai.list_models() may list
ListedModels ==
    {ListedModel("models/gemini-pro", <<"generateContent", "countTokens">>),
     ListedModel("models/chat-bison-001", <<"generateText">>),
     ListedModel("models/text-bison-001", <<"countTextTokens", "generateText">>),
     ListedModel("models/embedding-001", <<"embedContent">>),
     ListedModel("models/gemini-embedding-001", <<"embedContent">>),
     ListedModel("models/aqa", <<>>),
     ListedModel(None, <<"generateContent">>),
     TunedModel("tunedModels/Llama-7b", <<"GENERATE", "embedText", "countTokens">>)}

\* the lists of n different models
ModelLists(n) ==
    {l \in [1..n -> ListedModels] : \A i, j \in 1..n : i # j => l[i] # l[j]}

\* what genai.list_models() does in a run of the probe on its own
RichListings ==
    {ListingRaises} \cup {Listing(l) : l \in UNION {ModelLists(n) : n \in 0..MaxListed}}

\* the installed SDK: the generation methods a model object has, and the
\* generation functions the genai module has
Surface(modelAttrs, genaiAttrs) == [model |-> modelAttrs, genai |-> genaiAttrs]

SdkSurfaces ==
    {Surface({"generate_content"}, {}),
     Surface({}, {"generate_text"}),
     Surface({"generateText"}, {"create"}),
     Surface({}, {})}

\* the corpora agents are constructed over
Corpora == {<<>>, FAQ_DATABASE}

\* what one attempt's invocations do: first is the call of line 309 or 312
\* ("ok": returns payload; "TypeError", "raise": raises), second the positional
\* retry of line 316 after a TypeError
Behaviour(first, second, payload) == [first |-> first, second |-> second, payload |-> payload]

\* every behaviour of an attempt: the call returns a payload, or it raises, or
\* it raises TypeError and the positional retry returns a payload or raises
AdapterBehaviours ==
    {Behaviour("ok", "raise", p) : p \in PayloadIds}
    \cup {Behaviour("raise", "raise", "none"), Behaviour("TypeError", "raise", "none")}
    \cup {Behaviour("TypeError", "ok", p) : p \in PayloadIds}

\* the behaviours met while process_query runs
EngineBehaviours ==
    {Behaviour(f, "raise", p) : f \in {"ok", "raise"},
                                p \in {"str", "blank", "dictEmpty", "objOpaqueShort", "objTextRaises"}}
    \cup {Behaviour("ok", "raise", "padded")}

\* a backend that answers deterministically: whether the model's constructor
\* raises, how many of a call's first attempts raise, what the later ones do
BackendScript(ctorRaises, fails, then) == [ctorRaises |-> ctorRaises, fails |-> fails, then |-> then]

NoScript == BackendScript(FALSE, 0, Behaviour("raise", "raise", "none"))

\* the most attempts a scripted backend lets raise before it answers
MaxFails == 1

\* what a scripted backend does once the failing attempts are over
ScriptedEnds ==
    {Behaviour("ok", "raise", "str"), Behaviour("ok", "raise", "blank"),
     Behaviour("raise", "raise", "none")}

BackendScripts ==
    {BackendScript(c, k, b) : c \in BOOLEAN, k \in 0..MaxFails, b \in ScriptedEnds}

\* the behaviour of the attempt at idx under a script
ScriptedBehaviour(script, idx) ==
    IF idx <= script.fails THEN Behaviour("raise", "raise", "none") ELSE script.then

\* the listing and the SDK surface the scripted backend comes with
ScriptedListing == Listing(<<ListedModel("models/chat-bison-001", <<"generateText">>)>>)

ScriptedSurface == Surface({"generate_content"}, {"generate_text"})

\* the queries asked twice: one for each step of process_query
RepeatedQueries ==
    {None, "HEY", "cancel my order", "How do I reset my password?", "password help",
     "free trial length", "Show FAQs"}

-----------------------------------------------------------------------------
(* The state machine *)

NoProbe == [ran |-> FALSE, listing |-> Listing(<<>>), selected |-> <<None, None>>]

NoCall ==
    [agent |-> 0, caller |-> "", query |-> "", q |-> "", best |-> 0, first |-> 0,
     faq |-> 0, confidence |-> 0, prompt |-> "", idx |-> 0, resp |-> "",
     checks |-> <<>>]

\* no backend chosen, no earlier call kept; again: the call in progress repeats
\* the kept call (same agent, same query); switched: the call in progress stood
\* still at some point while the other caller ran
NoPrevious ==
    [scripted |-> FALSE, script |-> NoScript, seen |-> FALSE, agent |-> 0, query |-> "",
     result |-> NoResult, again |-> FALSE, switched |-> FALSE]

\* no second caller
NoParked ==
    [held |-> FALSE, pc |-> "idle", call |-> NoCall, attempts |-> <<>>, errors |-> <<>>,
     log |-> <<>>, invocations |-> 0, trace |-> <<>>, ctorCalls |-> 0, matcherCalls |-> 0,
     callModelCalls |-> 0, result |-> NoResult, again |-> FALSE, switched |-> FALSE]

\* what app.py notes of a run of the script: the event that started it, the
\* flags it found, whether New Chat or Restart Chat was handled, the quick
\* reply input handling consumed, whether process_query was called, with
\* what, whether it raised, what it returned, and the messages input
\* handling appended
NoRun ==
    [event |-> "none", text |-> "", startEscalated |-> FALSE, startEnded |-> FALSE,
     reset |-> FALSE, consumed |-> None, called |-> FALSE, query |-> None, raised |-> FALSE,
     outcome |-> NoResult, appended |-> 0]

\* st.session_state before the first run (lines 74-92, 280-281); rerun: a
\* rerun asked for by safe_rerun() is due
NoSession ==
    [agent_initialized |-> FALSE, agent |-> 0, messages |-> <<>>, escalated |-> FALSE,
     chat_ended |-> FALSE, quick_reply |-> None, processing |-> FALSE, rerun |-> FALSE,
     run |-> NoRun]

Init ==
    /\ imported = FALSE
    /\ GEMINI_API_KEY = FALSE
    /\ sdk = Surface({}, {})
    /\ matcher = "difflib"
    /\ SELECTED = <<None, None>>
    /\ probe = NoProbe
    /\ listModelsCalls = 0
    /\ agents = <<>>
    /\ pc = "idle"
    /\ call = NoCall
    /\ attempts = <<>>
    /\ errors = <<>>
    /\ log = <<>>
    /\ invocations = 0
    /\ trace = <<>>
    /\ ctorCalls = 0
    /\ matcherCalls = 0
    /\ callModelCalls = 0
    /\ result = NoResult
    /\ previous = NoPrevious
    /\ parked = NoParked
    /\ session = NoSession

\* import agent_logic (lines 15-85): read the key, run the probe once
Import(key, listing, surface, impl) ==
    /\ ~imported
    /\ imported' = TRUE
    /\ GEMINI_API_KEY' = key
    /\ sdk' = surface
    /\ matcher' = impl
    /\ SELECTED' = SelectModelAndMethod(listing)
    /\ listModelsCalls' = listModelsCalls + 1
    /\ UNCHANGED <<probe, agents, pc, call, attempts, errors, log, invocations, trace, ctorCalls,
                   matcherCalls, callModelCalls, result>>

\* line 85 on its own: _select_model_and_method() runs, list_models doing listing
ProbeRun(listing) ==
    /\ ~imported
    /\ ~probe.ran
    /\ probe' = [ran |-> TRUE, listing |-> listing, selected |-> SelectModelAndMethod(listing)]
    /\ listModelsCalls' = listModelsCalls + 1
    /\ UNCHANGED <<imported, GEMINI_API_KEY, sdk, matcher, SELECTED, agents, pc, call, attempts,
                   errors, log, invocations, trace, ctorCalls, matcherCalls, callModelCalls,
                   result>>

\* __init__ running _select_model_and_method() itself
ProbesAfterInitReprobing(n) == n + 1

\* the number of genai.list_models() calls after SupportAgent.__init__, which
\* reads the module's cached selection (lines 104-105)
ProbesAfterInit(n) == n

\* SupportAgent(faq_database)
Construct(faq_database) ==
    /\ imported
    /\ pc = "idle"
    /\ Len(agents) < MaxAgents
    /\ agents' = Append(agents, NewAgent(faq_database, SELECTED, GEMINI_API_KEY))
    /\ listModelsCalls' = ProbesAfterInit(listModelsCalls)
    /\ UNCHANGED <<imported, GEMINI_API_KEY, sdk, matcher, SELECTED, probe, pc, call, attempts, errors, log,
                   invocations, trace, ctorCalls, matcherCalls, callModelCalls, result>>

\* the largest score the library gives query q over the corpus, and the first
\* record that has it (0 for an empty corpus): <<score, index>>
BestScore(faq_db, q, impl) ==
    LET sc(i) == TokenSetRatio(Lower(q), Lower(faq_db[i].question), impl)
        top == {i \in 1..Len(faq_db) : \A j \in 1..Len(faq_db) : sc(j) <= sc(i)}
    IN  IF top = {} THEN <<0, 0>>
        ELSE LET i == CHOOSE i \in top : \A j \in top : i <= j IN <<sc(i), i>>

\* lines 148-299 of _call_model for an available agent: instantiate the model,
\* build the attempts list and enter the loop
EnterCallModel(c, ctorRaises) ==
    /\ pc' = "attempting"
    /\ call' = [c EXCEPT !.idx = 1]
    /\ attempts' = BuildAttempts(~ctorRaises, sdk.model, sdk.genai)
    /\ errors' = <<>>
    /\ log' = <<>>
    /\ invocations' = 0
    /\ trace' = <<>>
    /\ ctorCalls' = 1
    /\ callModelCalls' = 1
    /\ result' = NoResult

\* the call ends without entering _call_model's loop
EndCall(c, res, nCallModel) ==
    /\ pc' = "returned"
    /\ call' = c
    /\ attempts' = <<>>
    /\ errors' = <<>>
    /\ log' = <<>>
    /\ invocations' = 0
    /\ trace' = <<>>
    /\ ctorCalls' = 0
    /\ callModelCalls' = nCallModel
    /\ result' = res

\* process_query with find_matching_faq (line 370) run before the checks of
\* lines 348-361
ProcessQueryMatcherFirst(a, user_query) ==
    /\ pc = "idle"
    /\ a \in 1..Len(agents)
    /\ matcherCalls' = 1
    /\ LET agent == agents[a]
           q == Normalize(user_query)
           step == EarlyStep(q)
           b == BestScore(agent.faq_db, q, matcher)
           m == FindMatchingFaq(agent.faq_db, q, matcher)
           c == [NoCall EXCEPT !.agent = a, !.caller = "process_query",
                               !.query = user_query, !.q = q, !.best = b[1], !.first = b[2],
                               !.checks = ChecksRun(q), !.faq = m[1], !.confidence = m[2],
                               !.prompt = Prompt(agent.faq_db, m[1], q)]
       IN  IF step # "none" THEN EndCall(c, EarlyOutcome(step), 0)
           ELSE IF HighConfidence(m[1], m[2])
           THEN EndCall(c, Outcome(HighConfidenceReply(agent.faq_db[m[1]]),
                                   FALSE, None, NoActions), 0)
           ELSE IF ~agent.llm_available
           THEN EndCall(c, Fallbacks(agent.faq_db, m[1], m[2]), 0)
           ELSE \E ctorRaises \in BOOLEAN : EnterCallModel(c, ctorRaises)
    /\ UNCHANGED <<imported, GEMINI_API_KEY, sdk, matcher, SELECTED, probe, listModelsCalls, agents>>

\* agent.process_query(user_query), up to the return or to _call_model's loop
ProcessQuery(a, user_query) ==
    /\ pc = "idle"
    /\ a \in 1..Len(agents)
    /\ LET agent == agents[a]
           q == Normalize(user_query)
           step == EarlyStep(q)
           b == BestScore(agent.faq_db, q, matcher)
           c0 == [NoCall EXCEPT !.agent = a, !.caller = "process_query",
                                !.query = user_query, !.q = q, !.best = b[1], !.first = b[2],
                                !.checks = ChecksRun(q)]
       IN  IF step # "none"
           THEN /\ EndCall(c0, EarlyOutcome(step), 0)
                /\ matcherCalls' = 0
           ELSE LET m == FindMatchingFaq(agent.faq_db, q, matcher)
                    c == [c0 EXCEPT !.faq = m[1], !.confidence = m[2],
                                    !.prompt = Prompt(agent.faq_db, m[1], q)]
                IN  /\ matcherCalls' = 1
                    /\ IF HighConfidence(m[1], m[2])
                       THEN EndCall(c, Outcome(HighConfidenceReply(agent.faq_db[m[1]]),
                                               FALSE, None, NoActions), 0)
                       ELSE IF ~agent.llm_available
                       THEN EndCall(c, Fallbacks(agent.faq_db, m[1], m[2]), 0)
                       ELSE \E ctorRaises \in BOOLEAN : EnterCallModel(c, ctorRaises)
    /\ UNCHANGED <<imported, GEMINI_API_KEY, sdk, matcher, SELECTED, probe, listModelsCalls, agents>>

\* agent._call_model(prompt), called directly
CallModel(a, prompt) ==
    /\ pc = "idle"
    /\ a \in 1..Len(agents)
    /\ LET c == [NoCall EXCEPT !.agent = a, !.caller = "_call_model", !.prompt = prompt]
       IN  IF ~agents[a].llm_available
           THEN EndCall(c, Raise(NotConfigured), 1)
           ELSE \E ctorRaises \in BOOLEAN : EnterCallModel(c, ctorRaises)
    /\ matcherCalls' = 0
    /\ UNCHANGED <<imported, GEMINI_API_KEY, sdk, matcher, SELECTED, probe, listModelsCalls, agents>>

\* _call_model ends with cm (Returned(text) or Raise(exc)): its direct caller
\* gets cm, process_query goes on with lines 393-416
Finish(cm) ==
    /\ pc' = "returned"
    /\ result' = IF call.caller = "_call_model" THEN cm
                 ELSE AfterCallModel(cm, agents[call.agent].faq_db, call.faq, call.confidence)

\* the invocations one attempt makes under behaviour b
InvocationsOf(at, b) == IF at.binding = "kw" /\ b.first = "TypeError" THEN 2 ELSE 1

\* the invocations one attempt makes under behaviour b, in order: "kw" is
\* func(**args) (line 312), "args" is func(args), the keyword mapping passed as
\* the single positional argument (line 316), "prompt" is func(prompt) (line 309)
CallsOf(idx, at, b) ==
    IF at.binding = "kw"
    THEN IF b.first = "TypeError"
         THEN <<[idx |-> idx, how |-> "kw"], [idx |-> idx, how |-> "args"]>>
         ELSE <<[idx |-> idx, how |-> "kw"]>>
    ELSE <<[idx |-> idx, how |-> "prompt"]>>

\* lines 306-324: TRUE when the attempt ends in the except clause of line 322
AttemptRaises(at, b) ==
    IF at.binding = "kw"
    THEN b.first = "raise" \/ (b.first = "TypeError" /\ b.second = "raise")
    ELSE b.first # "ok"

\* one iteration of the loop of lines 303-337
Attempt(b) ==
    /\ pc = "attempting"
    /\ call.idx <= Len(attempts)
    /\ LET at == attempts[call.idx]
           n == InvocationsOf(at, b)
           parsed == ParseResponse(Payload(b.payload))
       IN  /\ invocations' = invocations + n
           /\ trace' = trace \o CallsOf(call.idx, at, b)
           /\ IF AttemptRaises(at, b)
              THEN /\ errors' = Append(errors, <<call.idx, n>>)
                   /\ log' = Append(log, "raised")
                   /\ call' = [call EXCEPT !.idx = @ + 1]
                   /\ UNCHANGED <<pc, result>>
              ELSE IF parsed.kind = "text"
              THEN /\ log' = Append(log, "text")
                   /\ call' = [call EXCEPT !.resp = b.payload]
                   /\ Finish(Returned(parsed.text))
                   /\ UNCHANGED errors
              ELSE IF parsed.kind = "raise"
              THEN /\ log' = Append(log, "escaped")
                   /\ call' = [call EXCEPT !.resp = b.payload]
                   /\ Finish(Raise(AccessorError))
                   /\ UNCHANGED errors
              ELSE /\ log' = Append(log, "notext")
                   /\ call' = [call EXCEPT !.idx = @ + 1, !.resp = b.payload]
                   /\ UNCHANGED <<errors, pc, result>>
    /\ UNCHANGED <<imported, GEMINI_API_KEY, sdk, matcher, SELECTED, probe, listModelsCalls, agents, attempts,
                   ctorCalls, matcherCalls, callModelCalls>>

\* lines 340-341 with the agent's adapter marked unavailable before the raise
ExhaustedMarkingAdapterDown ==
    /\ pc = "attempting"
    /\ call.idx > Len(attempts)
    /\ Finish(Raise(AllAttemptsFailed(errors)))
    /\ agents' = [agents EXCEPT ![call.agent].llm_available = FALSE]
    /\ UNCHANGED <<imported, GEMINI_API_KEY, sdk, matcher, SELECTED, probe, listModelsCalls, call,
                   attempts, errors, log, invocations, trace, ctorCalls, matcherCalls,
                   callModelCalls>>

\* the loop is over with no text: lines 340-341
Exhausted ==
    /\ pc = "attempting"
    /\ call.idx > Len(attempts)
    /\ Finish(Raise(AllAttemptsFailed(errors)))
    /\ UNCHANGED <<imported, GEMINI_API_KEY, sdk, matcher, SELECTED, probe, listModelsCalls, agents, call,
                   attempts, errors, log, invocations, trace, ctorCalls, matcherCalls,
                   callModelCalls>>

\* the end of a call that marks the agent's adapter unavailable
ReturnMarkingAdapterDown ==
    /\ pc = "returned"
    /\ pc' = "idle"
    /\ call' = NoCall
    /\ attempts' = <<>>
    /\ errors' = <<>>
    /\ log' = <<>>
    /\ invocations' = 0
    /\ trace' = <<>>
    /\ ctorCalls' = 0
    /\ matcherCalls' = 0
    /\ callModelCalls' = 0
    /\ result' = NoResult
    /\ agents' = [agents EXCEPT ![call.agent].llm_available = FALSE]
    /\ UNCHANGED <<imported, GEMINI_API_KEY, sdk, matcher, SELECTED, probe, listModelsCalls>>

\* the caller takes the result; the call's locals are gone
Return ==
    /\ pc = "returned"
    /\ pc' = "idle"
    /\ call' = NoCall
    /\ attempts' = <<>>
    /\ errors' = <<>>
    /\ log' = <<>>
    /\ invocations' = 0
    /\ trace' = <<>>
    /\ ctorCalls' = 0
    /\ matcherCalls' = 0
    /\ callModelCalls' = 0
    /\ result' = NoResult
    /\ UNCHANGED <<imported, GEMINI_API_KEY, sdk, matcher, SELECTED, probe, listModelsCalls, agents>>

Next ==
    \/ \E key \in BOOLEAN, listing \in ProbeListings, surface \in SdkSurfaces,
          impl \in SequenceMatchers :
          Import(key, listing, surface, impl) /\ UNCHANGED callers
    \/ \E faq_database \in Corpora : Construct(faq_database) /\ UNCHANGED callers
    \/ \E a \in 1..MaxAgents, user_query \in Queries : ProcessQuery(a, user_query) /\ UNCHANGED callers
    \/ \E a \in 1..MaxAgents : CallModel(a, "x") /\ UNCHANGED callers
    \/ \E b \in EngineBehaviours : Attempt(b) /\ UNCHANGED callers
    \/ Exhausted /\ UNCHANGED callers
    \/ Return /\ UNCHANGED callers

Spec == Init /\ [][Next]_vars

\* the adapter alone, under every behaviour of the backend
NextAdapter ==
    \/ \E key \in BOOLEAN, listing \in ProbeListings, surface \in SdkSurfaces,
          impl \in SequenceMatchers :
          Import(key, listing, surface, impl) /\ UNCHANGED callers
    \/ Construct(FAQ_DATABASE) /\ UNCHANGED callers
    \/ \E a \in 1..MaxAgents : CallModel(a, "x") /\ UNCHANGED callers
    \/ \E b \in AdapterBehaviours : Attempt(b) /\ UNCHANGED callers
    \/ Exhausted /\ UNCHANGED callers
    \/ Return /\ UNCHANGED callers

SpecAdapter == Init /\ [][NextAdapter]_vars

\* the probe alone, over the listings
NextProbe == \E listing \in RichListings : ProbeRun(listing) /\ UNCHANGED callers

SpecProbe == Init /\ [][NextProbe]_vars

\* the module's state and the state of the call in progress
program ==
    <<imported, GEMINI_API_KEY, sdk, matcher, SELECTED, probe, listModelsCalls, agents, pc, call,
      attempts, errors, log, invocations, trace, ctorCalls, matcherCalls, callModelCalls, result>>

\* the installed backend is one that answers by script
UseBackend(script) ==
    /\ imported
    /\ ~previous.scripted
    /\ previous' = [previous EXCEPT !.scripted = TRUE, !.script = script]
    /\ UNCHANGED <<program, parked, session>>

\* a caller's agent.process_query(user_query) with the scripted backend, the
\* caller noting whether it repeats the call it kept
Ask(a, user_query) ==
    /\ previous.scripted
    /\ ProcessQuery(a, user_query)
    /\ pc' = "attempting" =>
          attempts' = BuildAttempts(~previous.script.ctorRaises, sdk.model, sdk.genai)
    /\ previous' = [previous EXCEPT !.again = /\ previous.seen
                                              /\ previous.agent = a
                                              /\ previous.query = user_query,
                                    !.switched = FALSE]
    /\ UNCHANGED <<parked, session>>

\* one iteration of _call_model's loop with the scripted backend
Answer ==
    /\ pc = "attempting"
    /\ call.idx <= Len(attempts)
    /\ Attempt(ScriptedBehaviour(previous.script, call.idx))
    /\ UNCHANGED callers

\* the caller takes the result, and may keep the outcome of a call that ran
\* alone, the first it keeps
Take ==
    /\ call.caller = "process_query"
    /\ Return
    /\ \E keep \in BOOLEAN :
          previous' = IF keep /\ ~previous.seen /\ ~previous.switched
                      THEN [previous EXCEPT !.seen = TRUE, !.agent = call.agent,
                                            !.query = call.query, !.result = result,
                                            !.again = FALSE]
                      ELSE [previous EXCEPT !.again = FALSE, !.switched = FALSE]
    /\ UNCHANGED <<parked, session>>

\* process_query called again and again on the agents, the backend scripted
NextTwice ==
    \/ \E key \in BOOLEAN, impl \in SequenceMatchers :
          Import(key, ScriptedListing, ScriptedSurface, impl) /\ UNCHANGED callers
    \/ Construct(FAQ_DATABASE) /\ UNCHANGED callers
    \/ \E script \in BackendScripts : UseBackend(script)
    \/ \E a \in 1..MaxAgents, user_query \in RepeatedQueries : Ask(a, user_query)
    \/ Answer
    \/ Exhausted /\ UNCHANGED callers
    \/ Take

SpecTwice == Init /\ [][NextTwice]_vars

\* what the calls share: the module's variables and the agents
shared == <<imported, GEMINI_API_KEY, sdk, matcher, SELECTED, probe, listModelsCalls, agents>>

\* the scheduler stops the running caller where it is and runs the other one
Switch ==
    /\ previous.scripted
    /\ parked' = [held |-> TRUE, pc |-> pc, call |-> call, attempts |-> attempts,
                  errors |-> errors, log |-> log, invocations |-> invocations,
                  trace |-> trace, ctorCalls |-> ctorCalls, matcherCalls |-> matcherCalls,
                  callModelCalls |-> callModelCalls, result |-> result,
                  again |-> previous.again,
                  switched |-> previous.switched \/ pc = "attempting"]
    /\ pc' = parked.pc
    /\ call' = parked.call
    /\ attempts' = parked.attempts
    /\ errors' = parked.errors
    /\ log' = parked.log
    /\ invocations' = parked.invocations
    /\ trace' = parked.trace
    /\ ctorCalls' = parked.ctorCalls
    /\ matcherCalls' = parked.matcherCalls
    /\ callModelCalls' = parked.callModelCalls
    /\ result' = parked.result
    /\ previous' = [previous EXCEPT !.again = parked.again, !.switched = parked.switched]
    /\ UNCHANGED <<shared, session>>

\* the queries of the concurrent callers
ConcurrentQueries == {"cancel my order", "password help", "Show FAQs"}

\* two callers' process_query calls on the agents, interleaved at will
NextConcurrent ==
    \/ \E key \in BOOLEAN :
          Import(key, ScriptedListing, ScriptedSurface, "difflib") /\ UNCHANGED callers
    \/ Construct(FAQ_DATABASE) /\ UNCHANGED callers
    \/ \E script \in BackendScripts : UseBackend(script)
    \/ \E a \in 1..MaxAgents, user_query \in ConcurrentQueries : Ask(a, user_query)
    \/ Answer
    \/ Exhausted /\ UNCHANGED callers
    \/ Take
    \/ Switch

SpecConcurrent == Init /\ [][NextConcurrent]_vars

-----------------------------------------------------------------------------
(* app.py: the Streamlit script.  Every run executes the script from the top *)
(* with the session's st.session_state; at most one widget event starts a   *)
(* run, and a widget statement answers it only when the run reaches it.      *)
(* ticket_id (a time stamp) is left out.                                     *)

\* agent.process_query(user_query) as one call: the outcome process_query
\* returns when _call_model, if it is called, ends with cm
ProcessQueryOutcome(agent, user_query, cm) ==
    LET q == Normalize(user_query)
        step == EarlyStep(q)
        m == FindMatchingFaq(agent.faq_db, q, matcher)
    IN  IF step # "none" THEN EarlyOutcome(step)
        ELSE IF HighConfidence(m[1], m[2])
        THEN Outcome(HighConfidenceReply(agent.faq_db[m[1]]), FALSE, None, NoActions)
        ELSE IF ~agent.llm_available THEN Fallbacks(agent.faq_db, m[1], m[2])
        ELSE AfterCallModel(cm, agent.faq_db, m[1], m[2])

\* the call of lines 310-315: what process_query returns, or the exception
\* it raises; lines 347-367 work on a str only and raise nothing
AgentResult(agent, user_input, cm, raises) ==
    IF raises /\ EarlyStep(Normalize(user_input)) = "none"
    THEN Raise(Exc("Exception", "boom", NoError))
    ELSE ProcessQueryOutcome(agent, user_input, cm)

\* line 318 with the result left unescalated
ErrorResultNotEscalated(exc) ==
    Outcome("Sorry - I couldn't process your request due to a backend error.", FALSE,
            None, NoActions)

\* line 318: the result input handling makes up when process_query raised
ErrorResult(exc) ==
    Outcome("Sorry - I couldn't process your request due to a backend error.", TRUE,
            "Processing error: " \o exc.why, NoActions)

\* an entry of st.session_state.messages
Message(role, content, escalation_reason, actions) ==
    [role |-> role, content |-> content, escalation_reason |-> escalation_reason,
     actions |-> actions]

\* lines 157-162 and 226-231
ClosingMessage ==
    Message("assistant",
            "Thank you for chatting with us! If you have more questions later, "
            \o "just start a new chat. Have a great day!", None, NoActions)

\* what starts a run: nothing (a rerun, a reload), a click on a button, a
\* click on the quick action i of message idx (both from 0), a typed text
Event(kind, idx, i, text) == [kind |-> kind, idx |-> idx, i |-> i, text |-> text]

\* lines 118-122 and 167-171
ResetChat(s) ==
    [s EXCEPT !.messages = <<>>, !.escalated = FALSE, !.chat_ended = FALSE,
              !.quick_reply = None, !.run.reset = TRUE]

\* safe_rerun() (lines 12-24): where st.experimental_rerun() works the run
\* ends there and a rerun follows; where it does not, the run goes on
SafeRerun(x, works) == [x EXCEPT !.live = ~works]

\* lines 115-128: New Chat, Clear History
SidebarTop(x, e, works) ==
    IF ~x.live THEN x
    ELSE IF e.kind = "new_chat" THEN SafeRerun([x EXCEPT !.s = ResetChat(x.s)], works)
    ELSE IF e.kind = "clear_history" THEN SafeRerun([x EXCEPT !.s.messages = <<>>], works)
    ELSE x

\* lines 154-172: End Chat, or Restart Chat once the chat has ended
SidebarEnd(x, e, works) ==
    IF ~x.live THEN x
    ELSE IF ~x.s.chat_ended
    THEN IF e.kind = "sidebar_end"
         THEN SafeRerun([x EXCEPT !.s.messages = Append(@, ClosingMessage),
                                  !.s.chat_ended = TRUE], works)
         ELSE x
    ELSE IF e.kind = "restart" THEN SafeRerun([x EXCEPT !.s = ResetChat(x.s)], works)
    ELSE x

\* the quick actions of a message, <<>> when it shows no button (line 196)
ButtonsOf(message) ==
    IF message.role = "assistant" /\ message.actions # NoActions THEN message.actions[1]
    ELSE <<>>

\* lines 184-216: the history with its quick-action buttons
History(x, e, works) ==
    IF ~x.live THEN x
    ELSE IF /\ e.kind = "quick"
            /\ e.idx < Len(x.s.messages)
            /\ e.i < Len(ButtonsOf(x.s.messages[e.idx + 1]))
    THEN SafeRerun([x EXCEPT !.s.quick_reply = ButtonsOf(x.s.messages[e.idx + 1])[e.i + 1]],
                   works)
    ELSE x

\* lines 222-233: the End Chat button below the messages
InlineEnd(x, e, works) ==
    IF ~x.live THEN x
    ELSE IF ~x.s.chat_ended /\ ~x.s.escalated /\ e.kind = "inline_end"
    THEN SafeRerun([x EXCEPT !.s.messages = Append(@, ClosingMessage),
                             !.s.chat_ended = TRUE], works)
    ELSE x

\* lines 242-274: the history once more; its buttons repeat the keys of lines
\* 202 and 209, so a button gives DuplicateWidgetID, caught at line 271, or
\* sets quick_reply to what line 204 set already
HistoryAgain(x) == x

\* line 283 without the escalated flag
InputEnabledWhenEscalated(s) == ~s.chat_ended

\* line 283
InputEnabled(s) == ~s.escalated /\ ~s.chat_ended

\* lines 287-291 with quick_reply left as it is
ConsumeQuickReplyKeeping(s) == [s EXCEPT !.run.consumed = s.quick_reply]

\* lines 287-291: the quick reply becomes the input and is cleared
ConsumeQuickReply(s) == [s EXCEPT !.quick_reply = None, !.run.consumed = s.quick_reply]

\* lines 297-345: the input is processed in this run
Process(s, user_input, res) ==
    LET out == IF res.kind = "raise" THEN ErrorResult(res.exc) ELSE res
    IN  [s EXCEPT !.messages =
                      @ \o <<Message("user", user_input, None, NoActions),
                              Message("assistant", out.reply,
                                      IF out.escalated THEN out.escalation_reason ELSE None,
                                      out.actions)>>,
                  !.escalated = @ \/ out.escalated,
                  !.processing = FALSE,
                  !.run.called = TRUE,
                  !.run.query = user_input,
                  !.run.raised = (res.kind = "raise"),
                  !.run.outcome = out,
                  !.run.appended = 2]

\* lines 280-353: chat input handling
InputHandling(x, e, cm, raises) ==
    IF ~x.live \/ ~InputEnabled(x.s) THEN x
    ELSE LET quick == Truthy(x.s.quick_reply)
             user_input == IF quick THEN x.s.quick_reply
                           ELSE IF e.kind = "typed" THEN e.text ELSE None
             s1 == IF quick THEN ConsumeQuickReply(x.s) ELSE x.s
         IN  IF Truthy(user_input) /\ ~s1.processing
             THEN [x EXCEPT !.s = Process(s1, user_input,
                                          AgentResult(agents[s1.agent], user_input, cm, raises))]
             ELSE [x EXCEPT !.s = s1]

\* one run of the script from line 109 on
RunScript(s, e, works, cm, raises) ==
    LET s0 == [s EXCEPT !.rerun = FALSE,
                        !.run = [NoRun EXCEPT !.event = e.kind, !.text = e.text,
                                              !.startEscalated = s.escalated,
                                              !.startEnded = s.chat_ended]]
        x == InputHandling(
                 HistoryAgain(
                     InlineEnd(
                         History(
                             SidebarEnd(SidebarTop([s |-> s0, live |-> TRUE], e, works),
                                        e, works),
                             e, works),
                         e, works)),
                 e, cm, raises)
    IN  [x.s EXCEPT !.rerun = ~x.live]

\* the most messages a chat holds
MaxMessages == 6

\* what the user types
TypedInputs == {"hi", "cancel my order", "password help", "Show FAQs"}

Clicks == {"none", "new_chat", "clear_history", "sidebar_end", "restart", "inline_end"}

Events ==
    {Event(k, 0, 0, "") : k \in Clicks}
    \cup {Event("quick", idx, i, "") : idx \in 0..(MaxMessages - 1), i \in 0..2}
    \cup {Event("typed", 0, 0, t) : t \in TypedInputs}

\* how _call_model ends when the app's agent calls it
BackendEnds == {Returned("Please open Settings."), Raise(AllAttemptsFailed(<<>>))}

\* the first run of a session: lines 74-103 make the session state and the
\* agent; no widget was there to start it
FirstRun ==
    /\ ~session.agent_initialized
    /\ Construct(FAQ_DATABASE)
    /\ session' = [NoSession EXCEPT !.agent_initialized = TRUE, !.agent = Len(agents) + 1]
    /\ UNCHANGED <<previous, parked>>

\* a later run, started by event e (a rerun that is due comes first)
Run(e, works, cm, raises) ==
    /\ session.agent_initialized
    /\ session.rerun => e.kind = "none"
    /\ e.kind \in {"typed", "quick", "sidebar_end", "inline_end"} =>
          Len(session.messages) + 2 <= MaxMessages
    /\ session' = RunScript(session, e, works, cm, raises)
    /\ UNCHANGED <<program, previous, parked>>

NextApp ==
    \/ \E key \in BOOLEAN :
          Import(key, ScriptedListing, ScriptedSurface, "difflib") /\ UNCHANGED callers
    \/ FirstRun
    \/ \E e \in Events, works \in BOOLEAN, cm \in BackendEnds, raises \in BOOLEAN :
          Run(e, works, cm, raises)

SpecApp == Init /\ [][NextApp]_vars

-----------------------------------------------------------------------------
(* Properties.  A call of process_query or _call_model has ended when          *)
(* pc = "returned"; result is then what its caller gets, and call, log, errors *)
(* and the counters are those of the call.                                     *)

EndedProcessQuery == pc = "returned" /\ call.caller = "process_query"
EndedCallModel == pc = "returned" /\ call.caller = "_call_model"

\* the queries that are None or blank
BlankQueries == {u \in Queries : u = None \/ Strip(u) = ""}

\* the queries that are a greeting token, in any letter case
GreetingQueries == {u \in Queries \ BlankQueries : LowerOf(Strip(u)) \in GreetingTokens}

\* the queries in which an escalation keyword occurs, in any letter case
KeywordQueries ==
    {u \in Queries \ {None} :
        \E i \in 1..Len(EscalationKeywords) : Contains(LowerOf(u), EscalationKeywords[i])}

\* the queries that get to the matcher
PlainQueries == Queries \ (BlankQueries \cup GreetingQueries \cup KeywordQueries)

\* the record with the best score for the query of the call, the first of them
BestFaq == agents[call.agent].faq_db[call.first]

\* the reply quotes the question and the answer of faq after the opening words
Quotes(reply, opening, faq) ==
    /\ SubSeq(reply, 1, Len(opening)) = opening
    /\ Contains(reply, "Q: " \o faq.question \o "\nA: " \o faq.answer \o "\n")

\* _call_model ended by raising: the loop ran out, or an exception left it
CallModelRaised ==
    /\ callModelCalls = 1
    /\ \/ log = <<>>
       \/ log[Len(log)] # "text"

RECURSIVE HeldStrings(_)
\* the strings a payload holds, at any depth
HeldStrings(v) ==
    CASE v.t = "str" -> {v.s}
      [] v.t = "list" -> UNION {HeldStrings(v.items[i]) : i \in 1..Len(v.items)}
      [] v.t = "dict" -> UNION {HeldStrings(v.m[k]) : k \in DOMAIN v.m}
      [] v.t = "obj" -> UNION {HeldStrings(v.attrs[k]) : k \in DOMAIN v.attrs \ v.raising}
      [] v.t = "other" -> {}

\* the module's selection and key leave the adapter unavailable
AdapterUnavailable == imported /\ (~Truthy(SELECTED[1]) \/ ~GEMINI_API_KEY)

(* C1: whatever the query and whether the adapter is unavailable, succeeds or  *)
(* fails, the outcome process_query returns has an escalation_reason other     *)
(* than None if and only if its escalated flag is true.                        *)
C1_ReasonIffEscalated ==
    EndedProcessQuery =>
        /\ result.kind = "outcome"
        /\ (result.escalation_reason # None) <=> result.escalated

\* an escalated outcome with its reason, from an agent whose adapter is available
C1_Witness ==
    /\ EndedProcessQuery
    /\ agents[call.agent].llm_available
    /\ result.escalated
    /\ result.escalation_reason = EscalationReason

(* C2: for a query in which an escalation keyword occurs, in any letter case,  *)
(* process_query returns escalated = true with a reason, and the call runs     *)
(* neither find_matching_faq nor _call_model, and invokes no backend.          *)
C2_KeywordEscalates ==
    (EndedProcessQuery /\ call.query \in KeywordQueries) =>
        /\ result.kind = "outcome"
        /\ result.escalated
        /\ result.escalation_reason # None
        /\ matcherCalls = 0
        /\ callModelCalls = 0
        /\ ctorCalls = 0
        /\ invocations = 0

\* an upper-case keyword, put to an agent whose adapter is available
C2_Witness ==
    /\ EndedProcessQuery
    /\ call.query = "This is URGENT"
    /\ agents[call.agent].llm_available
    /\ result.escalated

(* C3, as amended: for a query that is not blank, not a greeting and holds no  *)
(* escalation keyword, and whose best token-set similarity over the corpus is  *)
(* >= 75 (75 included), process_query returns the knowledge-base reply quoting *)
(* the best-scoring record (the first of them in corpus order), not escalated, *)
(* and the call runs no _call_model and invokes no backend, whether the        *)
(* adapter is available or not.                                                *)
C3_HighConfidenceAnswer ==
    (EndedProcessQuery /\ call.query \in PlainQueries /\ call.best >= 75) =>
        /\ result.kind = "outcome"
        /\ Quotes(result.reply, "Based on our knowledge base:", BestFaq)
        /\ ~result.escalated
        /\ result.escalation_reason = None
        /\ callModelCalls = 0
        /\ ctorCalls = 0
        /\ invocations = 0

\* the boundary: a query whose best similarity is exactly 75, adapter available
C3_Witness ==
    /\ EndedProcessQuery
    /\ call.query = "how to reset pw"
    /\ call.best = 75
    /\ agents[call.agent].llm_available
    /\ result.reply = HighConfidenceReply(FAQ_DATABASE[2])

(* C3, as stated: for every query whose similarity to some FAQ question is     *)
(* >= 75, process_query returns that record's answer in the knowledge-base     *)
(* reply with escalated = false and no backend invocation.                     *)
C3_AnyQueryAtLeast75 ==
    (EndedProcessQuery /\ call.best >= 75) =>
        /\ Quotes(result.reply, "Based on our knowledge base:", BestFaq)
        /\ ~result.escalated
        /\ invocations = 0

(* C4, as amended: with the adapter unavailable, a query that gets to the      *)
(* matcher and whose best similarity lies in [60, 75) gets the soft-suggestion *)
(* reply quoting the best-scoring record, not escalated, without quick         *)
(* actions; one whose best similarity is below 60 (so also one in [50, 60))    *)
(* gets the generic fallback with the actions "Show FAQs", "Talk to human".    *)
C4_SoftSuggestionFrom60 ==
    (EndedProcessQuery /\ call.query \in PlainQueries /\ ~agents[call.agent].llm_available) =>
        /\ result.kind = "outcome"
        /\ ~result.escalated
        /\ (call.best >= 60 /\ call.best < 75) =>
              /\ Quotes(result.reply, "It looks like this FAQ might help", BestFaq)
              /\ result.actions = NoActions
        /\ call.best < 60 =>
              /\ result.reply = GenericFallback
              /\ result.actions = Actions(FallbackActions)

\* the floor: a query whose best similarity is exactly 60, adapter unavailable
C4_Witness ==
    /\ EndedProcessQuery
    /\ call.query = "are you open today"
    /\ call.best = 60
    /\ ~agents[call.agent].llm_available
    /\ result.reply = SoftSuggestionReply(FAQ_DATABASE[8])

(* C4, as stated, for the queries that get to the matcher: with the adapter    *)
(* unavailable, a best similarity in [50, 75) gets the soft-suggestion reply   *)
(* quoting that record, not escalated.                                         *)
C4_SoftSuggestionFrom50 ==
    (EndedProcessQuery /\ call.query \in PlainQueries /\ ~agents[call.agent].llm_available
     /\ call.best >= 50 /\ call.best < 75) =>
        /\ Quotes(result.reply, "It looks like this FAQ might help", BestFaq)
        /\ ~result.escalated

(* C5: when _call_model ends by raising (every attempt failed, whether or not  *)
(* the model could be constructed, or an exception left the loop),             *)
(* process_query raises nothing: it returns an outcome of the fallback path,   *)
(* the soft suggestion when the matcher kept a record, else the generic        *)
(* fallback with its two actions.                                              *)
C5_BackendFailureFallsBack ==
    (EndedProcessQuery /\ CallModelRaised) =>
        /\ result.kind = "outcome"
        /\ ~result.escalated
        /\ result.escalation_reason = None
        /\ IF call.best >= 60
           THEN /\ Quotes(result.reply, "It looks like this FAQ might help", BestFaq)
                /\ result.actions = NoActions
           ELSE /\ result.reply = GenericFallback
                /\ result.actions = Actions(FallbackActions)

\* every attempt was made and the last one raised; the generic fallback came back
C5_Witness ==
    /\ EndedProcessQuery
    /\ CallModelRaised
    /\ attempts # <<>>
    /\ Len(log) = Len(attempts)
    /\ log[Len(log)] = "raised"
    /\ result.reply = GenericFallback

(* C6, as stated: a _call_model call of an available agent ends in one of two  *)
(* ways, returned text, or the aggregated RuntimeError raised after every      *)
(* attempt was made and none gave text, carrying the last error an attempt     *)
(* raised.                                                                     *)
C6_TextOrAggregatedFailure ==
    (EndedCallModel /\ agents[call.agent].llm_available) =>
        \/ result.kind = "text"
        \/ /\ result.kind = "raise"
           /\ result.exc.type = "RuntimeError"
           /\ result.exc.why = "All model call attempts failed"
           /\ result.exc.last = (IF errors = <<>> THEN NoError ELSE errors[Len(errors)])
           /\ Len(log) = Len(attempts)
           /\ \A i \in 1..Len(log) : log[i] \in {"raised", "notext"}

(* C7, as stated: the text _call_model returns is text the payload holds, or   *)
(* a string form whose trimmed length exceeds 10; a payload without text whose *)
(* string form is shorter is not returned.                                     *)
C7_ShortStringFormNotReturned ==
    (EndedCallModel /\ result.kind = "text") =>
        \/ result.text \in HeldStrings(Payload(call.resp))
        \/ Len(Strip(result.text)) > 10

(* C8: within one _call_model call only the last attempt made can have given   *)
(* text; when it has, the call has ended there, returning that attempt's       *)
(* non-empty text, every earlier attempt having raised or given no acceptable  *)
(* text, and a call that returns text returns the text of its last attempt.    *)
C8_StopsAtFirstText ==
    (call.caller = "_call_model" /\ log # <<>>) =>
        /\ \A i \in 1..(Len(log) - 1) : log[i] \in {"raised", "notext"}
        /\ log[Len(log)] = "text" =>
              /\ pc = "returned"
              /\ result.kind = "text"
              /\ result.text # ""
              /\ result.text = ParseResponse(Payload(call.resp)).text
              /\ call.idx = Len(log)
              /\ invocations >= Len(log)
              /\ invocations <= 2 * Len(log)
        /\ (pc = "returned" /\ result.kind = "text") => log[Len(log)] = "text"

\* the third attempt gave the text, after one that raised and one without text
C8_Witness ==
    /\ EndedCallModel
    /\ log = <<"raised", "notext", "text">>
    /\ Len(attempts) > 3
    /\ result.kind = "text"

(* C9: when the probe raised or selected no model, or no key is set, the       *)
(* adapter stays unavailable: list_models has been called once and never       *)
(* again, no agent is available, no call is ever inside the attempt loop, no   *)
(* model is constructed and no backend invoked, process_query never calls      *)
(* _call_model, and a direct _call_model raises "not configured".              *)
C9_UnavailableForGood ==
    AdapterUnavailable =>
        /\ listModelsCalls = 1
        /\ \A a \in 1..Len(agents) : ~agents[a].llm_available
        /\ pc # "attempting"
        /\ ctorCalls = 0
        /\ invocations = 0
        /\ EndedProcessQuery => (callModelCalls = 0 /\ result.kind = "outcome")
        /\ EndedCallModel => result = Raise(NotConfigured)

\* a model was selected but no key is set: the direct call raised
C9_Witness ==
    /\ AdapterUnavailable
    /\ Truthy(SELECTED[1])
    /\ EndedCallModel
    /\ result = Raise(NotConfigured)

(* C10: list_models is called once, by the import, and never by a construction *)
(* or a call; every agent holds the selection and the availability the import  *)
(* fixed, and no step changes the selection or an agent already constructed.   *)
C10_SelectedOnce ==
    /\ [](/\ listModelsCalls = (IF imported THEN 1 ELSE 0)
          /\ \A a \in 1..Len(agents) :
                /\ agents[a].model_name = SELECTED[1]
                /\ agents[a].method_name = SELECTED[2]
                /\ agents[a].llm_available = (Truthy(SELECTED[1]) /\ GEMINI_API_KEY))
    /\ [][imported =>
            /\ SELECTED' = SELECTED
            /\ GEMINI_API_KEY' = GEMINI_API_KEY
            /\ \A a \in 1..Len(agents) : agents'[a] = agents[a]]_vars

\* two agents constructed, and a call of the second one answered by the backend
C10_Witness ==
    /\ Len(agents) = MaxAgents
    /\ EndedProcessQuery
    /\ call.agent = MaxAgents
    /\ callModelCalls = 1
    /\ listModelsCalls = 1

\* the attempts of the call that bind keywords on the callable of attempt i
KwAttemptsLike(i) ==
    {j \in 1..Len(attempts) :
        /\ attempts[j].surface = attempts[i].surface
        /\ attempts[j].method = attempts[i].method
        /\ attempts[j].binding = "kw"}

\* the keyword-bound invocation of attempt j is among the first k - 1 invocations
KwTriedBefore(j, k) == \E n \in 1..(k - 1) : trace[n] = [idx |-> j, how |-> "kw"]

(* C11, as amended: the first backend invocation of a _call_model call binds   *)
(* keywords; func(prompt) of a method is invoked only after every keyword      *)
(* shape of that method has been invoked; the only other positional call is    *)
(* func(args), the keyword mapping passed as one positional argument, made     *)
(* right after the keyword-bound invocation of the same attempt (when that     *)
(* raised TypeError), so it can come before the method's other keyword shapes. *)
C11_KeywordShapesFirst ==
    call.caller = "_call_model" =>
        /\ trace # <<>> => trace[1].how = "kw"
        /\ \A k \in 1..Len(trace) :
              /\ trace[k].how = "prompt" =>
                    \A j \in KwAttemptsLike(trace[k].idx) :
                        j < trace[k].idx /\ KwTriedBefore(j, k)
              /\ trace[k].how = "args" =>
                    k > 1 /\ trace[k - 1] = [idx |-> trace[k].idx, how |-> "kw"]

\* a keyword shape was retried as func(args), and func(prompt) was called later
C11_Witness ==
    /\ call.caller = "_call_model"
    /\ Len(trace) > 2
    /\ trace[2].how = "args"
    /\ \E k \in 1..Len(trace) : trace[k].how = "prompt"

(* C11, as stated: the first backend invocation binds keywords, and no         *)
(* positional-bound invocation of a method is made before every keyword shape  *)
(* of that method has been invoked.                                            *)
C11_NoPositionalBeforeKeywords ==
    call.caller = "_call_model" =>
        /\ trace # <<>> => trace[1].how = "kw"
        /\ \A k \in 1..Len(trace) :
              trace[k].how # "kw" =>
                  \A j \in KwAttemptsLike(trace[k].idx) : KwTriedBefore(j, k)

\* p and c match: one of them, lower-cased, occurs in the other
MatchesEitherWay(p, c) ==
    Contains(LowerOf(c), LowerOf(p)) \/ Contains(LowerOf(p), LowerOf(c))

\* the listed models the probe can return: named, advertising a capability
Usable(models) ==
    {i \in 1..Len(models) : Truthy(ModelName(models[i])) /\ Supported(models[i]) # <<>>}

\* the score of a listed model
ProbeScore(m) == KeywordScore(LowerOf(ModelName(m))) + Len(Supported(m))

\* the preferred method names that match a capability of m, as indices
PreferredFor(m) ==
    {i \in 1..Len(PREFERRED_METHODS) :
        \E j \in 1..Len(Supported(m)) : MatchesEitherWay(PREFERRED_METHODS[i], Supported(m)[j])}

\* the first preferred name matching a capability of m, else m's first capability
MethodExpected(m) ==
    IF PreferredFor(m) # {}
    THEN PREFERRED_METHODS[CHOOSE i \in PreferredFor(m) : \A j \in PreferredFor(m) : i <= j]
    ELSE Supported(m)[1]

BisonOnly == Listing(<<ListedModel("models/chat-bison-001", <<"generateText">>)>>)

(* C12: the probe goes through the candidates in descending score order        *)
(* (listing order among equal scores) and returns the first one that           *)
(* advertises a capability: with the first preferred method name that matches  *)
(* one of its capabilities, case-insensitively, as a substring in either       *)
(* direction, or, when none matches, with its first capability's raw name.     *)
(* With no such candidate it returns (None, None).  A listing of only          *)
(* models/chat-bison-001 with generateText gives that model and generateText.  *)
C12_FirstUsableCandidate ==
    (probe.ran /\ ~probe.listing.raises) =>
        LET models == probe.listing.models
            u == Usable(models)
        IN  /\ IF u = {} THEN probe.selected = <<None, None>>
               ELSE \E i \in u :
                       /\ \A j \in u : ProbeScore(models[j]) <= ProbeScore(models[i])
                       /\ \A j \in u : j < i => ProbeScore(models[j]) < ProbeScore(models[i])
                       /\ probe.selected = <<ModelName(models[i]), MethodExpected(models[i])>>
            /\ probe.listing = BisonOnly =>
                  probe.selected = <<"models/chat-bison-001", "generateText">>

\* the model listed last wins, by a capability that matches a preferred name
\* only as a substring of it
C12_Witness ==
    /\ probe.ran
    /\ Len(probe.listing.models) = 3
    /\ probe.listing.models[1].name = "models/embedding-001"
    /\ probe.listing.models[2].name = "models/aqa"
    /\ probe.selected = <<"tunedModels/Llama-7b", "generate_content">>

\* the rank of the best preference keyword the name of m contains: 1 for the
\* first keyword of PREFERRED_MODEL_KEYWORDS, one past the last for none
TopKeyword(m) ==
    LET n == Len(PREFERRED_MODEL_KEYWORDS)
        held == {i \in 1..n : Contains(LowerOf(ModelName(m)), PREFERRED_MODEL_KEYWORDS[i])}
    IN  IF held = {} THEN n + 1 ELSE CHOOSE i \in held : \A j \in held : i <= j

(* C13, as stated: keyword preference ranks first, so the model the probe      *)
(* returns holds a preference keyword at least as high as the best keyword of  *)
(* every other listed model it could return; the number of capabilities        *)
(* decides only among models with the same keyword match.                      *)
C13_KeywordPriorityFirst ==
    (probe.ran /\ ~probe.listing.raises /\ Usable(probe.listing.models) # {}) =>
        LET models == probe.listing.models
            u == Usable(models)
        IN  \E i \in u :
               /\ probe.selected[1] = ModelName(models[i])
               /\ \A j \in u : TopKeyword(models[i]) <= TopKeyword(models[j])
               /\ \A j \in u :
                     (j # i /\ KeywordScore(LowerOf(ModelName(models[j])))
                                 = KeywordScore(LowerOf(ModelName(models[i]))))
                     => Len(Supported(models[j])) <= Len(Supported(models[i]))

\* process_query has run find_matching_faq: call.faq and call.confidence are
\* what it returned, call.best the best raw score over the corpus
MatcherRan == call.caller = "process_query" /\ matcherCalls = 1

\* the raw score of record i of the call's corpus for the call's query
ScoreOf(i) ==
    TokenSetRatio(Lower(call.q), Lower(agents[call.agent].faq_db[i].question), matcher)

(* C14: find_matching_faq returns (None, 0.0) when the best raw score over the *)
(* corpus is below 60, an empty corpus included; from 60 on it returns a       *)
(* record that has the best score, with that score / 100 as the confidence     *)
(* (kept in hundredths).  So no record scoring below 60 is returned.           *)
C14_MatchFloor60 ==
    MatcherRan =>
        IF call.best < 60
        THEN call.faq = 0 /\ call.confidence = 0
        ELSE /\ call.faq \in 1..Len(agents[call.agent].faq_db)
             /\ ScoreOf(call.faq) = call.best
             /\ call.confidence = call.best
             /\ call.confidence >= 60

\* the boundary: the best score is exactly 60 and its record is returned
C14_Witness ==
    /\ MatcherRan
    /\ call.query = "are you open today"
    /\ call.best = 60
    /\ call.faq = 8
    /\ call.confidence = 60

(* C15: when several records share the best score, find_matching_faq returns   *)
(* the first of them in corpus order: every record before the one returned     *)
(* scores strictly less, none scores more.                                     *)
C15_FirstOfTies ==
    (MatcherRan /\ call.faq # 0) =>
        /\ \A j \in 1..(call.faq - 1) : ScoreOf(j) < ScoreOf(call.faq)
        /\ \A j \in 1..Len(agents[call.agent].faq_db) : ScoreOf(j) <= ScoreOf(call.faq)

\* records 2 and 6 both score 100 for the query, record 2 is returned
C15_Witness ==
    /\ MatcherRan
    /\ call.query = "how do i"
    /\ agents[call.agent].faq_db = FAQ_DATABASE
    /\ ScoreOf(2) = 100
    /\ ScoreOf(6) = 100
    /\ call.faq = 2

(* C16: for a query that is a greeting token once trimmed and lower-cased,     *)
(* process_query returns the fixed welcome text, not escalated, without a      *)
(* reason, with exactly the actions Check FAQs, Report an issue, Talk to a     *)
(* human, and the call runs neither the escalation check nor the matcher nor   *)
(* _call_model, and invokes no backend.                                        *)
C16_GreetingWelcome ==
    (EndedProcessQuery /\ call.query \in GreetingQueries) =>
        /\ result.kind = "outcome"
        /\ result.reply = GreetingReply
        /\ ~result.escalated
        /\ result.escalation_reason = None
        /\ result.actions = <<(<<"Check FAQs", "Report an issue", "Talk to a human">>)>>
        /\ call.checks = <<"empty", "greeting">>
        /\ matcherCalls = 0
        /\ callModelCalls = 0
        /\ invocations = 0

\* a capitalised greeting between spaces, put to an agent with an available adapter
C16_Witness ==
    /\ EndedProcessQuery
    /\ call.query = " Hello "
    /\ agents[call.agent].llm_available
    /\ result.reply = GreetingReply

(* C17: for a query that is not blank, not a greeting and holds no escalation  *)
(* keyword, whose score is below 60 for every record, put to an agent whose    *)
(* adapter is unavailable, process_query returns the generic "can't generate   *)
(* a full answer" text, not escalated, with the actions Show FAQs, Talk to     *)
(* human, in that order.                                                       *)
C17_GenericFallback ==
    (/\ EndedProcessQuery
     /\ call.query \in PlainQueries
     /\ ~agents[call.agent].llm_available
     /\ \A i \in 1..Len(agents[call.agent].faq_db) : ScoreOf(i) < 60) =>
        /\ result.kind = "outcome"
        /\ result.reply = GenericFallback
        /\ Contains(result.reply, "can't generate a full answer")
        /\ ~result.escalated
        /\ result.escalation_reason = None
        /\ result.actions = <<(<<"Show FAQs", "Talk to human">>)>>
        /\ callModelCalls = 0
        /\ invocations = 0

\* a query scoring 32 at best against FAQ_DATABASE, adapter unavailable
C17_Witness ==
    /\ EndedProcessQuery
    /\ call.query = "Show FAQs"
    /\ agents[call.agent].faq_db = FAQ_DATABASE
    /\ ~agents[call.agent].llm_available
    /\ call.best = 32
    /\ result.reply = GenericFallback

\* the text _call_model returned to process_query, "" when it returned none
BackendText ==
    IF callModelCalls = 1 /\ log # <<>> /\ log[Len(log)] = "text"
    THEN ParseResponse(Payload(call.resp)).text
    ELSE ""

\* the first step of the order 1 empty query, 2 greeting, 3 escalation keyword,
\* 4 high-confidence FAQ, 5 backend answer, 6 medium-confidence suggestion,
\* 7 generic fallback that applies to the call that ended
FirstApplicableStep ==
    IF call.query \in BlankQueries THEN 1
    ELSE IF call.query \in GreetingQueries THEN 2
    ELSE IF call.query \in KeywordQueries THEN 3
    ELSE IF call.best >= 75 THEN 4
    ELSE IF agents[call.agent].llm_available /\ Strip(BackendText) # "" THEN 5
    ELSE IF call.best >= 60 THEN 6
    ELSE 7

\* the outcome of each step
StepOutcome(step) ==
    CASE step = 1 -> Outcome(EmptyReply, FALSE, None, NoActions)
      [] step = 2 -> Outcome(GreetingReply, FALSE, None,
                             Actions(<<"Check FAQs", "Report an issue", "Talk to a human">>))
      [] step = 3 -> Outcome(EscalationReply, TRUE, EscalationReason, NoActions)
      [] step = 4 -> Outcome(HighConfidenceReply(BestFaq), FALSE, None, NoActions)
      [] step = 5 -> Outcome(Strip(BackendText), FALSE, None, NoActions)
      [] step = 6 -> Outcome(SoftSuggestionReply(BestFaq), FALSE, None, NoActions)
      [] step = 7 -> Outcome(GenericFallback, FALSE, None,
                             Actions(<<"Show FAQs", "Talk to human">>))

(* C18: process_query decides by the first step that applies, in the order     *)
(* empty query, greeting, escalation keyword, high-confidence FAQ (score >= 75 *)
(* of 100), backend answer, medium-confidence suggestion, generic fallback:    *)
(* the outcome is that step's; when one of the first three steps decides, the  *)
(* checks made are those up to it, the matcher is not run and _call_model is   *)
(* not called; when the high-confidence FAQ decides, _call_model is not called *)
(* and no backend invoked; and a query makes at most one _call_model call,     *)
(* made only when no earlier step applied and the adapter is available.        *)
C18_FirstApplicableStepDecides ==
    /\ callModelCalls <= 1
    /\ (pc = "attempting" /\ call.caller = "process_query") =>
          /\ call.query \in PlainQueries
          /\ call.best < 75
          /\ agents[call.agent].llm_available
          /\ matcherCalls = 1
          /\ callModelCalls = 1
    /\ EndedProcessQuery =>
          LET step == FirstApplicableStep
          IN  /\ result = StepOutcome(step)
              /\ call.checks = SubSeq(<<"empty", "greeting", "escalation">>, 1,
                                      IF step < 3 THEN step ELSE 3)
              /\ matcherCalls = (IF step <= 3 THEN 0 ELSE 1)
              /\ step <= 4 => (callModelCalls = 0 /\ ctorCalls = 0 /\ invocations = 0)
              /\ step >= 5 =>
                    callModelCalls = (IF agents[call.agent].llm_available THEN 1 ELSE 0)
              /\ callModelCalls = 0 => invocations = 0

\* an escalation keyword in a query that scores 75 or more, put to an agent
\* whose adapter is available: step 3 decides, steps 4 and 5 do no work
C18_Witness ==
    /\ EndedProcessQuery
    /\ call.query \in KeywordQueries
    /\ call.best >= 75
    /\ agents[call.agent].llm_available
    /\ result.escalated
    /\ matcherCalls = 0
    /\ callModelCalls = 0

\* the backend's answer comes before the medium-confidence suggestion
C18_WitnessBackendBeforeSuggestion ==
    /\ EndedProcessQuery
    /\ FirstApplicableStep = 5
    /\ call.best >= 60
    /\ result.reply = Strip(BackendText)

\* the state the calls of an agent read: the agent's attributes and corpus, the
\* module's selection and key, the installed libraries
ReadByCalls == <<agents, SELECTED, GEMINI_API_KEY, sdk, matcher>>

(* C19: a process_query call that repeats an earlier call (same agent, same    *)
(* query), the adapter being unavailable or the backend answering by the same  *)
(* script both times, ends with the outcome the earlier call had: same reply,  *)
(* escalated flag, escalation reason and quick actions; and no step of a call  *)
(* changes anything a later call reads.                                        *)
C19_SameQuerySameOutcome ==
    /\ []((EndedProcessQuery /\ previous.again) => result = previous.result)
    /\ [][(pc # "idle" \/ pc' # "idle") => UNCHANGED ReadByCalls]_vars

\* the repeated call went to the backend and returned its answer, as the first did
C19_Witness ==
    /\ EndedProcessQuery
    /\ previous.again
    /\ agents[call.agent].llm_available
    /\ callModelCalls = 1
    /\ invocations > 0
    /\ result.reply = Strip(BackendText)
    /\ result = previous.result

\* the repeated call of an agent whose adapter is unavailable
C19_WitnessUnavailable ==
    /\ EndedProcessQuery
    /\ previous.again
    /\ ~agents[call.agent].llm_available
    /\ call.query = "password help"
    /\ result = previous.result

(* C20: the steps of process_query and _call_model change no attribute of an   *)
(* agent, no record of its corpus and no variable of the module, so when two   *)
(* callers' process_query calls on shared agents are interleaved, a call that  *)
(* stood still while the other caller ran ends, like one that did not, with    *)
(* the outcome the same call had when it ran alone.                            *)
C20_InterleavedCallsAsAlone ==
    /\ []((EndedProcessQuery /\ previous.again /\ previous.switched) =>
             result = previous.result)
    /\ []((parked.pc = "returned" /\ parked.again) => parked.result = previous.result)
    /\ [][/\ Len(agents') >= Len(agents)
          /\ \A a \in 1..Len(agents) : agents'[a] = agents[a]
          /\ imported => UNCHANGED <<imported, SELECTED, GEMINI_API_KEY, sdk, matcher>>]_vars

\* both callers repeat the kept call on the same agent at the same time: the
\* one that stood still in _call_model's loop has ended with the backend's
\* answer while the other is inside the loop
C20_Witness ==
    /\ EndedProcessQuery
    /\ previous.again
    /\ previous.switched
    /\ parked.pc = "attempting"
    /\ parked.again
    /\ parked.call.agent = call.agent
    /\ callModelCalls = 1
    /\ result.reply = Strip(BackendText)
    /\ result = previous.result

\* what process_query returns on the fallback path, the adapter unavailable
UnavailableOutcome ==
    IF call.best >= 60
    THEN Outcome(SoftSuggestionReply(BestFaq), FALSE, None, NoActions)
    ELSE Outcome(GenericFallback, FALSE, None, Actions(<<"Show FAQs", "Talk to human">>))

(* C21: a query that reaches the backend step (not blank, not a greeting, no   *)
(* escalation keyword, best score below 75) on an agent whose adapter is       *)
(* available: when _call_model returns text whose trimmed form is not empty,   *)
(* the outcome is that trimmed text, not escalated, no reason, no quick        *)
(* actions; when it returns whitespace only or raises, the outcome is the one  *)
(* of an unavailable adapter: the soft suggestion when the matcher kept a      *)
(* record, else the generic fallback.                                          *)
C21_AnswerOrFallback ==
    (EndedProcessQuery /\ callModelCalls = 1) =>
        /\ call.query \in PlainQueries
        /\ call.best < 75
        /\ agents[call.agent].llm_available
        /\ IF Strip(BackendText) # ""
           THEN /\ result = Outcome(Strip(BackendText), FALSE, None, NoActions)
                /\ Strip(result.reply) = result.reply
           ELSE result = UnavailableOutcome

\* the backend's text came padded with white space and was returned trimmed,
\* although the matcher had kept a record
C21_Witness ==
    /\ EndedProcessQuery
    /\ callModelCalls = 1
    /\ call.resp = "padded"
    /\ BackendText = "  Sure - open Settings, then Billing.\n"
    /\ call.best >= 60
    /\ result.reply = "Sure - open Settings, then Billing."

\* _call_model returned white space only: the soft suggestion came back
C21_WitnessBlank ==
    /\ EndedProcessQuery
    /\ callModelCalls = 1
    /\ BackendText = "   "
    /\ call.best >= 60
    /\ result = UnavailableOutcome

\* the 15 trigger terms of detect_escalation_keywords
TriggerTerms ==
    {"urgent", "critical", "emergency", "asap", "immediately", "broken", "not working",
     "error", "angry", "refund", "cancel", "speak to", "human", "manager", "lawsuit"}

\* a trigger term occurs in the lower-cased text of query u
HasTriggerTerm(u) == u # None /\ \E t \in TriggerTerms : Contains(LowerOf(u), t)

\* the queries with a trigger term
TriggerQueries == {u \in Queries : HasTriggerTerm(u)}

(* C22: an outcome is escalated only when the query's lower-cased text         *)
(* contains one of the 15 trigger terms: a query with none of them gets        *)
(* escalated = false and no reason whatever the agent's adapter is and         *)
(* whatever the backend does, its failure included; _call_model's own result   *)
(* is never escalated.                                                         *)
C22_EscalatedOnlyOnTrigger ==
    /\ Cardinality(TriggerTerms) = 15
    /\ result.escalated =>
          /\ call.caller = "process_query"
          /\ call.query \in TriggerQueries
          /\ callModelCalls = 0
    /\ (EndedProcessQuery /\ call.query \notin TriggerQueries) =>
          /\ result.kind = "outcome"
          /\ ~result.escalated
          /\ result.escalation_reason = None

\* no trigger term in the query, every attempt of the backend failed: not escalated
C22_Witness ==
    /\ EndedProcessQuery
    /\ call.query \notin TriggerQueries
    /\ call.query \in PlainQueries
    /\ CallModelRaised
    /\ invocations > 0
    /\ ~result.escalated

\* a result of find_matching_faq over faq_db: no record with confidence 0, or a
\* record of faq_db with confidence in [0.6, 1.0] (in hundredths)
NoneOrAtLeast60(faq_db, m) ==
    \/ m = <<0, 0>>
    \/ m[1] \in 1..Len(faq_db) /\ m[2] >= 60 /\ m[2] <= 100

\* find_matching_faq applied to every query, stripped as process_query strips
\* it, over every corpus, with either matcher
MatcherResultsInRange ==
    \A faq_db \in Corpora, u \in Queries, impl \in SequenceMatchers :
        NoneOrAtLeast60(faq_db, FindMatchingFaq(faq_db, Normalize(u), impl))

(* C26: every result of find_matching_faq is no record with confidence 0.0 or  *)
(* a record with confidence in [0.6, 1.0]; so in process_query the gate        *)
(* confidence >= 0.5 is true whenever there is a record, a fallback with a     *)
(* record is the soft suggestion, and the generic fallback with Show FAQs,     *)
(* Talk to human is returned only when the matcher found no record.            *)
C26_RecordMeansAtLeast60 ==
    /\ MatcherResultsInRange
    /\ matcherCalls = 1 =>
          /\ NoneOrAtLeast60(agents[call.agent].faq_db, <<call.faq, call.confidence>>)
          /\ call.faq # 0 => call.confidence >= 50
          /\ (call.faq = 0) = (call.best < 60)
    /\ (EndedProcessQuery /\ matcherCalls = 1) =>
          /\ result.reply = GenericFallback =>
                (call.faq = 0 /\ result.actions = <<(<<"Show FAQs", "Talk to human">>)>>)
          /\ result.actions = <<(<<"Show FAQs", "Talk to human">>)>> => call.faq = 0
          /\ (call.faq # 0 /\ call.confidence < 75 /\ Strip(BackendText) = "") =>
                result.reply = SoftSuggestionReply(agents[call.agent].faq_db[call.faq])

\* the matcher kept a record below 0.75, the backend failed, and the fallback
\* was the soft suggestion
C26_Witness ==
    /\ EndedProcessQuery
    /\ matcherCalls = 1
    /\ call.faq # 0
    /\ call.confidence >= 60
    /\ call.confidence < 75
    /\ CallModelRaised
    /\ result.reply = SoftSuggestionReply(BestFaq)

\* the best score was 51: no record, and the generic fallback
C26_WitnessBelowFloor ==
    /\ EndedProcessQuery
    /\ matcherCalls = 1
    /\ call.best > 50
    /\ call.best < 60
    /\ call.faq = 0
    /\ call.confidence = 0
    /\ result.reply = GenericFallback

\* the last run of the script
LastRun == session.run

\* the last run handled an input: the last two messages are the user's and the
\* assistant's
LastExchange == SubSeq(session.messages, Len(session.messages) - 1, Len(session.messages))

(* C23: a run that finds session_state.escalated or chat_ended true passes no  *)
(* input, typed or quick action, to process_query and its input handling       *)
(* appends no message and consumes no quick reply; escalated goes back to      *)
(* false only in a run that handles New Chat or Restart Chat, and chat_ended   *)
(* likewise.                                                                   *)
C23_EscalatedBlocksInput ==
    /\ []((LastRun.startEscalated \/ LastRun.startEnded) =>
             /\ ~LastRun.called
             /\ LastRun.appended = 0
             /\ LastRun.consumed = None)
    /\ [][((session.escalated /\ ~session'.escalated)
           \/ (session.chat_ended /\ ~session'.chat_ended)) =>
             /\ session'.run.reset
             /\ session'.run.event \in {"new_chat", "restart"}]_vars
    /\ [][(session.escalated /\ session'.run.called) => FALSE]_vars

\* a text typed into an escalated session: the run drops it
C23_Witness ==
    /\ LastRun.startEscalated
    /\ ~LastRun.startEnded
    /\ LastRun.event = "typed"
    /\ LastRun.text = "password help"
    /\ ~LastRun.called
    /\ session.escalated
    /\ session.messages # <<>>

\* a quick action clicked in an escalated session: it stays in quick_reply
C23_WitnessQuick ==
    /\ LastRun.startEscalated
    /\ LastRun.event = "quick"
    /\ session.quick_reply = "Report an issue"
    /\ ~LastRun.called
    /\ session.escalated

(* C24: when process_query raises while an input is handled, the run appends   *)
(* the user's message and exactly one assistant message, the backend-error     *)
(* apology with a "Processing error" reason, sets escalated, and ends with     *)
(* processing false; processing is false at the end of every run.              *)
C24_ProcessingErrorEscalates ==
    /\ ~session.processing
    /\ LastRun.raised =>
          /\ LastRun.called
          /\ LastRun.appended = 2
          /\ Len(session.messages) >= 2
          /\ LastExchange[1] = Message("user", LastRun.query, None, NoActions)
          /\ LastExchange[2] =
                Message("assistant",
                        "Sorry - I couldn't process your request due to a backend error.",
                        "Processing error: boom", NoActions)
          /\ session.escalated

\* process_query raised on a typed text
C24_Witness ==
    /\ LastRun.raised
    /\ LastRun.event = "typed"
    /\ LastRun.query = "password help"
    /\ session.escalated
    /\ ~session.processing
    /\ Len(session.messages) = 2

(* C25: the run that consumes quick_reply found the session neither escalated  *)
(* nor ended, passes the label to process_query once, appends it as one user   *)
(* message followed by one assistant message and leaves quick_reply None; a    *)
(* run consumes a label only when a click set it, in that run or in the run    *)
(* before, so no later run processes it again.                                 *)
C25_QuickReplyOnce ==
    /\ [](LastRun.consumed # None =>
             /\ ~LastRun.startEscalated
             /\ ~LastRun.startEnded
             /\ LastRun.called
             /\ LastRun.query = LastRun.consumed
             /\ LastRun.appended = 2
             /\ LastExchange[1] = Message("user", LastRun.consumed, None, NoActions)
             /\ LastExchange[2].role = "assistant"
             /\ session.quick_reply = None)
    /\ [](session.quick_reply # None =>
             \/ LastRun.event = "quick" /\ session.rerun
             \/ session.escalated
             \/ session.chat_ended)
    /\ [][session'.run.consumed # None =>
             \/ session'.run.event = "quick"
             \/ session.run.event = "quick" /\ session.rerun
                /\ session.quick_reply = session'.run.consumed]_vars
    /\ [][(session'.run.called /\ session'.run.event # "typed") =>
             session'.run.consumed = session'.run.query]_vars

\* the click and the consumption in one run: safe_rerun() did not rerun
C25_Witness ==
    /\ LastRun.event = "quick"
    /\ LastRun.consumed = "Check FAQs"
    /\ LastRun.called
    /\ session.quick_reply = None
    /\ ~session.rerun
    /\ Len(session.messages) = 4

\* the click in one run, the consumption in the rerun safe_rerun() started
C25_WitnessRerun ==
    /\ LastRun.event = "none"
    /\ LastRun.consumed = "Check FAQs"
    /\ LastRun.called
    /\ session.quick_reply = None
    /\ Len(session.messages) = 4

(* C27: the greeting outcome offers "Talk to a human" and the generic fallback *)
(* "Talk to human"; when a run of a session neither escalated nor ended        *)
(* consumes either label, process_query returns the escalated outcome and the  *)
(* session is escalated; from then on no run passes an input to process_query  *)
(* and the session stays escalated, until a run handles New Chat or Restart    *)
(* Chat.                                                                       *)
C27_HumanContactEscalates ==
    /\ GreetingActions[3] = "Talk to a human"
    /\ FallbackActions[2] = "Talk to human"
    /\ [](LastRun.consumed \in {"Talk to a human", "Talk to human"} =>
             /\ ~LastRun.startEscalated
             /\ ~LastRun.startEnded
             /\ LastRun.called
             /\ ~LastRun.raised
             /\ LastRun.outcome =
                   Outcome("This looks urgent. I'm escalating this to a human support agent.",
                           TRUE, "Contains urgent/critical keywords", NoActions)
             /\ session.escalated)
    /\ [][(session.escalated /\ ~session'.run.reset) =>
             /\ session'.escalated
             /\ ~session'.run.called
             /\ session'.messages \in {session.messages, <<>>,
                                       Append(session.messages, ClosingMessage)}]_vars

\* "Talk to human" clicked under the generic fallback
C27_Witness ==
    /\ LastRun.consumed = "Talk to human"
    /\ Len(session.messages) = 4
    /\ session.messages[2].content = GenericFallback
    /\ session.messages[4].escalation_reason = EscalationReason
    /\ session.escalated

\* "Talk to a human" clicked under the greeting
C27_WitnessGreeting ==
    /\ LastRun.consumed = "Talk to a human"
    /\ Len(session.messages) = 4
    /\ session.messages[2].content = GreetingReply
    /\ session.escalated

====
